---- MODULE Spec2Model ----
(***************************************************************************)
(* NanoCrab: chat gateway in front of the Codex CLI.                       *)
(*                                                                         *)
(* The module models                                                       *)
(*   - the text functions of src/src/codex/runner.ts (parseProposal,       *)
(*     evaluateCommandPolicy, computeApprovalDecision, runCodexCli),       *)
(*   - the router of src/src/router.ts (handleInbound and the command      *)
(*     handlers it dispatches to), one action per inbound message,         *)
(*   - the per-chat queue of src/src/index.ts (PerChatQueue).              *)
(*                                                                         *)
(* Strings are TLA+ strings read character by character with SubSeq.       *)
(* Only ASCII can be written in a TLA+ string, so the non-ASCII texts of   *)
(* the source are written with stand-ins:                                  *)
(*    "^"        the full-width colon U+FF1A                               *)
(*    "queren"   U+786E U+8BA4 (confirm)      "hao"    U+597D (good)       *)
(*    "zhixing"  U+6267 U+884C (execute)      "quxiao" U+53D6 U+6D88       *)
(*    "buyao"    U+4E0D U+8981 (do not)       "jixu"   U+7EE7 U+7EED       *)
(* and the fixed Chinese replies of the router are written in English.     *)
(***************************************************************************)
EXTENDS Integers, Sequences, FiniteSets, TLC

(***************************************************************************)
(* Characters and strings                                                  *)
(***************************************************************************)

Ch(s, i) == SubSeq(s, i, i)

UpperChars == "ABCDEFGHIJKLMNOPQRSTUVWXYZ"

LowerChars == "abcdefghijklmnopqrstuvwxyz"

Digits == "0123456789"

IsIn(c, chars) == \E i \in 1..Len(chars) : Ch(chars, i) = c

CharsOf(chars) == {Ch(chars, i) : i \in 1..Len(chars)}

UpperSet == CharsOf(UpperChars)

WordSet == CharsOf(UpperChars) \cup CharsOf(LowerChars) \cup CharsOf(Digits) \cup {"_"}

LetterSet == CharsOf(UpperChars) \cup CharsOf(LowerChars)

LowerOf == [c \in UpperSet |-> Ch(LowerChars, CHOOSE i \in 1..26 : Ch(UpperChars, i) = c)]

\* String.prototype.toLowerCase on one character
LowerCh(c) == IF c \in UpperSet THEN LowerOf[c] ELSE c

\* String.prototype.toLowerCase: a text without upper-case letters is its
\* own lower case
RECURSIVE LowerEach(_)
LowerEach(s) == IF s = "" THEN "" ELSE LowerCh(Ch(s, 1)) \o LowerEach(Tail(s))

ToLower(s) ==
  IF \A i \in 1..Len(s) : SubSeq(s, i, i) \notin UpperSet THEN s ELSE LowerEach(s)

\* the class \s of a JavaScript regular expression (the ASCII part)
IsWs(c) == c \in {" ", "\t", "\n", "\r"}

\* the class \w
IsWordCh(c) == c \in WordSet

\* the class [:U+FF1A]
IsColon(c) == c \in {":", "^"}

\* the class [A-Z_]
IsLabelCh(c) == c \in UpperSet \/ c = "_"

RECURSIVE TrimStart(_)
TrimStart(s) == IF s # "" /\ IsWs(Ch(s, 1)) THEN TrimStart(Tail(s)) ELSE s

RECURSIVE TrimEnd(_)
TrimEnd(s) ==
  IF s # "" /\ IsWs(Ch(s, Len(s))) THEN TrimEnd(SubSeq(s, 1, Len(s) - 1)) ELSE s

\* String.prototype.trim
Trim(s) == TrimEnd(TrimStart(s))

StartsWith(s, p) == Len(s) >= Len(p) /\ SubSeq(s, 1, Len(p)) = p

\* s.slice(i0) with a 0-based index
SliceFrom(s, i0) == SubSeq(s, i0 + 1, Len(s))

\* the least element of a set of positions, 0 when there is none
MinOr0(S) == IF S = {} THEN 0 ELSE CHOOSE i \in S : \A j \in S : i <= j

\* position after a run of \s* that starts at position i
RECURSIVE SkipWs(_, _)
SkipWs(s, i) == IF i <= Len(s) /\ IsWs(Ch(s, i)) THEN SkipWs(s, i + 1) ELSE i

\* position after a run of [A-Z_]* that starts at position i
RECURSIVE SkipLabel(_, _)
SkipLabel(s, i) == IF i <= Len(s) /\ IsLabelCh(Ch(s, i)) THEN SkipLabel(s, i + 1) ELSE i

\* case-insensitive match of the lower-case literal lit at position i
LitAt(s, i, lit) ==
  /\ i >= 1
  /\ i + Len(lit) - 1 <= Len(s)
  /\ lit # "" => LowerCh(Ch(s, i)) = Ch(lit, 1)
  /\ ToLower(SubSeq(s, i, i + Len(lit) - 1)) = lit

\* Array.prototype.join
RECURSIVE Join(_, _)
Join(list, sep) ==
  IF list = <<>> THEN ""
  ELSE IF Len(list) = 1 THEN list[1]
  ELSE list[1] \o sep \o Join(Tail(list), sep)

\* String.prototype.split(/\r?\n/)
RECURSIVE SplitLines(_)
SplitLines(s) ==
  LET nl == MinOr0({i \in 1..Len(s) : Ch(s, i) = "\n"})
  IN IF nl = 0 THEN <<s>>
     ELSE LET upto == IF nl > 1 /\ Ch(s, nl - 1) = "\r" THEN nl - 2 ELSE nl - 1
          IN <<SubSeq(s, 1, upto)>> \o SplitLines(SubSeq(s, nl + 1, Len(s)))

\* text.trim().split(/\s+/) on a trimmed, non-empty text
RECURSIVE SplitWs(_)
SplitWs(s) ==
  LET At(ws) ==
        IF ws = 0 THEN <<s>>
        ELSE <<SubSeq(s, 1, ws - 1)>> \o SplitWs(SubSeq(s, SkipWs(s, ws), Len(s)))
  IN At(MinOr0({i \in 1..Len(s) : IsWs(Ch(s, i))}))

(***************************************************************************)
(* runner.ts: the proposal parser                                          *)
(***************************************************************************)

\* /NEEDS_APPROVAL\s*[:U+FF1A]\s*(yes|no)/i tried at position i:
\* the captured group in lower case, "" when there is no match at i
NeedsAt(s, i) ==
  IF ~LitAt(s, i, "needs_approval") THEN ""
  ELSE LET c == SkipWs(s, i + 14)
       IN IF ~(c <= Len(s) /\ IsColon(Ch(s, c))) THEN ""
          ELSE LET v == SkipWs(s, c + 1)
               IN IF LitAt(s, v, "yes") THEN "yes"
                  ELSE IF LitAt(s, v, "no") THEN "no"
                  ELSE ""

\* text.match(/NEEDS_APPROVAL\s*[:U+FF1A]\s*(yes|no)/i): group 1 of the
\* leftmost match in lower case, "" when the text has no match
NeedsMatch(s) ==
  LET at == MinOr0({i \in 1..Len(s) : NeedsAt(s, i) # ""})
  IN IF at = 0 THEN "" ELSE NeedsAt(s, at)

\* new RegExp(label + "\\s*[:U+FF1A]", "i") tried at position i:
\* the position after the match, 0 when there is no match at i
MarkerEndAt(s, i, label) ==
  IF ~LitAt(s, i, ToLower(label)) THEN 0
  ELSE LET c == SkipWs(s, i + Len(label))
       IN IF c <= Len(s) /\ IsColon(Ch(s, c)) THEN c + 1 ELSE 0

\* /\n[A-Z_]+\s*[:U+FF1A]\s*/ matches at position i
NextMarkerAt(s, i) ==
  /\ i <= Len(s) /\ Ch(s, i) = "\n"
  /\ SkipLabel(s, i + 1) > i + 1
  /\ LET c == SkipWs(s, SkipLabel(s, i + 1))
     IN c <= Len(s) /\ IsColon(Ch(s, c))

extractSection(text, label) ==
  LET idx == MinOr0({i \in 1..Len(text) : MarkerEndAt(text, i, label) # 0})
  IN IF idx = 0 THEN ""
     ELSE LET after == SubSeq(text, MarkerEndAt(text, idx, label), Len(text))
              nextMarker == MinOr0({i \in 1..Len(after) : NextMarkerAt(after, i)})
              section == IF nextMarker = 0 THEN after
                         ELSE SubSeq(after, 1, nextMarker - 1)
          IN Trim(section)

\* a list parser that keeps the bullet of a line
BulletKept(line) == Trim(line)

\* line.replace(/^\s*-\s*/, "").trim()
StripBullet(line) ==
  LET d == SkipWs(line, 1)
  IN IF d <= Len(line) /\ Ch(line, d) = "-"
       THEN Trim(SubSeq(line, SkipWs(line, d + 1), Len(line)))
       ELSE Trim(line)

RECURSIVE KeepItems(_)
KeepItems(items) ==
  IF items = <<>> THEN <<>>
  ELSE IF items[1] # "" /\ ToLower(items[1]) # "none"
    THEN <<items[1]>> \o KeepItems(Tail(items))
    ELSE KeepItems(Tail(items))

parseListSection(section) ==
  IF section = "" THEN <<>>
  ELSE LET lines == SplitLines(section)
       IN KeepItems([i \in 1..Len(lines) |-> StripBullet(lines[i])])

\* the value null of parseProposal
NoProposal == [parsed |-> FALSE]

\* a parser that reads an output without the marker as NEEDS_APPROVAL: no
ParsedAsNo(output) ==
  [parsed        |-> TRUE,
   needsApproval |-> NeedsMatch(output) = "yes",
   summary       |-> extractSection(output, "SUMMARY"),
   response      |-> extractSection(output, "RESPONSE"),
   commands      |-> parseListSection(extractSection(output, "COMMANDS")),
   files         |-> parseListSection(extractSection(output, "FILES"))]

parseProposal(output) ==
  IF NeedsMatch(output) = "" THEN NoProposal
  ELSE [parsed        |-> TRUE,
        needsApproval |-> NeedsMatch(output) = "yes",
        summary       |-> extractSection(output, "SUMMARY"),
        response      |-> extractSection(output, "RESPONSE"),
        commands      |-> parseListSection(extractSection(output, "COMMANDS")),
        files         |-> parseListSection(extractSection(output, "FILES"))]

(***************************************************************************)
(* runner.ts: the pattern matcher and the command policy                   *)
(***************************************************************************)

\* raw.lastIndexOf("/") as a 1-based position, 0 when there is no "/"
LastSlash(raw) ==
  LET S == {i \in 1..Len(raw) : Ch(raw, i) = "/"}
  IN IF S = {} THEN 0 ELSE CHOOSE i \in S : \A j \in S : j <= i

\* /^[gimsuy]+$/.test(flags)
ValidFlags(flags) == flags # "" /\ \A i \in 1..Len(flags) : IsIn(Ch(flags, i), "gimsuy")

\* The RegExp compilePattern builds, as the way it is matched:
\*   word    new RegExp("\\b" + escapeRegex(raw) + "\\b", "i")
\*   substr  new RegExp(escapeRegex(raw), "i")
\*   regex   new RegExp(pattern, flags || "i")
\* escapeRegex makes every character of raw match itself.
compilePattern(raw) ==
  IF StartsWith(raw, "/") /\ LastSlash(raw) > 1
    THEN LET pattern == SubSeq(raw, 2, LastSlash(raw) - 1)
             flags == SubSeq(raw, LastSlash(raw) + 1, Len(raw))
         IN IF flags # "" /\ ~ValidFlags(flags)
              THEN [kind |-> "substr", text |-> raw, flags |-> "i"]
              ELSE [kind |-> "regex", text |-> pattern,
                    flags |-> IF flags = "" THEN "i" ELSE flags]
    ELSE [kind |-> "word", text |-> raw, flags |-> "i"]

RECURSIVE TrimAll(_)
TrimAll(list) ==
  IF list = <<>> THEN <<>>
  ELSE IF Trim(list[1]) = "" THEN TrimAll(Tail(list))
  ELSE <<Trim(list[1])>> \o TrimAll(Tail(list))

compilePatterns(list) ==
  LET raws == TrimAll(list) IN [i \in 1..Len(raws) |-> compilePattern(raws[i])]

\* \b at position p: between the characters p-1 and p
WordBoundary(s, p) ==
  LET before == p > 1 /\ p - 1 <= Len(s) /\ IsWordCh(Ch(s, p - 1))
      after == p >= 1 /\ p <= Len(s) /\ IsWordCh(Ch(s, p))
  IN before # after

\* text occurs at position i of s, ignoring case iff the flags hold "i"
TextAt(s, i, text, flags) ==
  /\ i + Len(text) - 1 <= Len(s)
  /\ text # "" => LowerCh(Ch(s, i)) = LowerCh(Ch(text, 1))
  /\ IF IsIn("i", flags)
       THEN ToLower(SubSeq(s, i, i + Len(text) - 1)) = ToLower(text)
       ELSE SubSeq(s, i, i + Len(text) - 1) = text

\* the pattern matches the command at position i; a pattern of kind regex is
\* matched as the text between its slashes (patterns without metacharacters)
MatchesAt(pat, command, i) ==
  /\ TextAt(command, i, pat.text, pat.flags)
  /\ pat.kind = "word" =>
       WordBoundary(command, i) /\ WordBoundary(command, i + Len(pat.text))

\* a RegExp with the flag g or y keeps lastIndex between its calls
KeepsLastIndex(pat) == IsIn("g", pat.flags) \/ IsIn("y", pat.flags)

\* the position of the match that regex.test finds when regex.lastIndex is
\* lastIndex (counted from 0), 0 for no match: the search starts at lastIndex
\* with g or y and at 0 without, and with y the match must begin there
ExecAt(pat, command, lastIndex) ==
  LET start == IF KeepsLastIndex(pat) THEN lastIndex ELSE 0
      last == IF IsIn("y", pat.flags) THEN start + 1 ELSE Len(command) + 1
  IN MinOr0({i \in (start + 1)..last :
               i <= Len(command) + 1 /\ MatchesAt(pat, command, i)})

\* pattern.regex.test(command) with regex.lastIndex = lastIndex: its result,
\* and lastIndex after the call (the end of the match, 0 after a failure)
RegexTestFrom(pat, command, lastIndex) ==
  LET at == ExecAt(pat, command, lastIndex)
  IN [found |-> at # 0,
      lastIndex |-> IF ~KeepsLastIndex(pat) THEN lastIndex
                    ELSE IF at = 0 THEN 0
                    ELSE at - 1 + Len(pat.text)]

\* pattern.regex.test(command) on a RegExp just built
RegexTest(pat, command) == RegexTestFrom(pat, command, 0).found

\* lastIndex of every RegExp that compilePatterns has just built
NewlyCompiled(patterns) == [k \in 1..Len(patterns) |-> 0]

\* patterns.some(...) from the k-th pattern on: idx holds lastIndex of every
\* pattern; the patterns after the first that matches are not tested
RECURSIVE SomeFrom(_, _, _, _)
SomeFrom(command, patterns, idx, k) ==
  IF k > Len(patterns) THEN [found |-> FALSE, idx |-> idx]
  ELSE LET t == RegexTestFrom(patterns[k], command, idx[k])
           next == [idx EXCEPT ![k] = t.lastIndex]
       IN IF t.found THEN [found |-> TRUE, idx |-> next]
          ELSE SomeFrom(command, patterns, next, k + 1)

\* matchesAny on patterns whose lastIndex values are idx
matchesAnyFrom(command, patterns, idx) ==
  IF Len(patterns) = 0 THEN [found |-> FALSE, idx |-> idx]
  ELSE SomeFrom(command, patterns, idx, 1)

\* matchesAny on patterns just compiled
matchesAny(command, patterns) ==
  matchesAnyFrom(command, patterns, NewlyCompiled(patterns)).found

\* for (const cmd of commands) if (matchBlock(cmd)) blockedCommands.push(cmd)
RECURSIVE FilterFrom(_, _, _)
FilterFrom(commands, patterns, idx) ==
  IF commands = <<>> THEN <<>>
  ELSE LET m == matchesAnyFrom(commands[1], patterns, idx)
       IN (IF m.found THEN <<commands[1]>> ELSE <<>>)
            \o FilterFrom(Tail(commands), patterns, m.idx)

FilterMatching(commands, patterns) ==
  FilterFrom(commands, patterns, NewlyCompiled(patterns))

\* for (const cmd of commands) if (matchConfirm(cmd)) needsApproval = true:
\* every command is tested
RECURSIVE AnyFrom(_, _, _)
AnyFrom(commands, patterns, idx) ==
  IF commands = <<>> THEN FALSE
  ELSE LET m == matchesAnyFrom(commands[1], patterns, idx)
           rest == AnyFrom(Tail(commands), patterns, m.idx)
       IN m.found \/ rest

\* commands.every((cmd) => matchAllow(cmd)): ends at the first command that
\* does not match
RECURSIVE EveryFrom(_, _, _)
EveryFrom(commands, patterns, idx) ==
  IF commands = <<>> THEN TRUE
  ELSE LET m == matchesAnyFrom(commands[1], patterns, idx)
       IN m.found /\ EveryFrom(Tail(commands), patterns, m.idx)

\* cfg: the lists CODEX_CMD_BLOCK, CODEX_CMD_CONFIRM, CODEX_CMD_ALLOW
evaluateCommandPolicy(commands, cfg) ==
  LET blockPatterns == compilePatterns(cfg.block)
      confirmPatterns == compilePatterns(cfg.confirm)
      allowPatterns == compilePatterns(cfg.allow)
      blockedCommands == FilterMatching(commands, blockPatterns)
      needsApproval == AnyFrom(commands, confirmPatterns, NewlyCompiled(confirmPatterns))
      allowAll == /\ Len(allowPatterns) > 0
                  /\ Len(commands) > 0
                  /\ EveryFrom(commands, allowPatterns, NewlyCompiled(allowPatterns))
  IN [blocked         |-> Len(blockedCommands) > 0,
      blockedCommands |-> blockedCommands,
      needsApproval   |-> needsApproval,
      autoExecute     |-> allowAll /\ ~needsApproval]

\* a runner that trusts the policy alone: no approval for what the proposal
\* asks or for the files it lists
PolicyDecidesAlone(parsed, policy) == policy.blocked \/ policy.needsApproval

computeApprovalDecision(parsed, policy) ==
  IF policy.blocked THEN TRUE
  ELSE IF policy.autoExecute THEN FALSE
  ELSE parsed.needsApproval \/ policy.needsApproval \/ Len(parsed.files) > 0

(***************************************************************************)
(* State                                                                   *)
(***************************************************************************)

VARIABLES
  config,       \* the environment: CODEX_CMD_BLOCK/CONFIRM/ALLOW, SAFE_DIRS
  memo,         \* parseProposal, evaluateCommandPolicy and parseInlineApproval on
                \* the texts of the agent, computed when the run begins
  traffic,      \* the texts that the chats of this run send
  plugin,       \* store: active plugin of a conversation, "" for none
  approvals,    \* store: the ApprovalRecords, in creation order
  writeMode,    \* store: write mode of a conversation
  confirmNext,  \* store: one-shot write mode of a conversation
  backend,      \* store: backend of a conversation, "" for the default
  model,        \* store: model of a conversation, "" for none
  workspace,    \* store: workspace directory of a conversation, "" for none
  safeDirs,     \* store: directories added at run time (addSafeDir)
  history,      \* store: saved messages of a conversation, oldest first
  registry,     \* plugin manager: the registry entry of the builtin plugin
  runtimes,     \* plugin manager: the loaded runtime of the builtin plugin
  sessions,     \* store: the CLI session id of a conversation (conv), of a
                \* workspace directory (ws), and the directory of an id (wsOf)
  last,         \* what the handling of the latest inbound message did
  queues,       \* PerChatQueue.queues
  processing,   \* PerChatQueue.processing
  inFlight,     \* handler invocations of a chat that have not settled
  immediates,   \* setImmediate callbacks of a chat that have not run
  handled,      \* messages of a chat passed to the handler, in order
  enqueued,     \* messages of a chat given to enqueue, in order
  agents,       \* runner: the agent processes that the handler of a chat has yet
                \* to see close, in order; the first of them is alive
  ipc,          \* IsolateRuntime: the requests that the handler of a chat has
                \* still to be answered, the first of them posted to the
                \* worker, and whether the worker has crashed
  applied       \* a function of the runner applied on its own: its name, its
                \* input, and its result once it has returned

routerVars == <<config, memo, traffic, plugin, approvals, writeMode, confirmNext, backend, model,
                workspace, safeDirs, history, registry, runtimes, sessions, last>>

queueVars == <<queues, processing, inFlight, immediates, handled, enqueued, ipc, agents>>

vars == <<routerVars, queueVars, applied>>

(***************************************************************************)
(* The environment of a run: the configuration and the agent               *)
(***************************************************************************)

\* config.ts: DATA_DIR is path.join(PROJECT_ROOT, "data")
PROJECT_ROOT == "/app"

DATA_DIR == PROJECT_ROOT \o "/data"

\* agent tells whether the agent binary prints its session id ("announcing")
\* or not ("quiet")
DefaultConfig ==
  [block |-> <<>>, confirm |-> <<"rm", "dd">>, allow |-> <<>>, safeDirs |-> {PROJECT_ROOT},
   agent |-> "quiet"]

StrictConfig ==
  [block |-> <<"rm">>, confirm |-> <<"rm", "dd">>, allow |-> <<"ls">>,
   safeDirs |-> {PROJECT_ROOT}, agent |-> "quiet"]

Configs == {DefaultConfig, StrictConfig}

\* SAFE_DIRS=/safe
SafeRootConfig == [DefaultConfig EXCEPT !.safeDirs = {"/safe"}]

\* SAFE_DIRS names a directory whose path begins the path of the default
\* workspace of chat c1 without being above it
SiblingConfig == [DefaultConfig EXCEPT !.safeDirs = {DATA_DIR \o "/workspaces/c"}]

\* SAFE_DIRS set and empty
OpenConfig == [DefaultConfig EXCEPT !.safeDirs = {}]

\* an agent binary that prints its session id
SessionConfig == [DefaultConfig EXCEPT !.agent = "announcing"]

\* every environment the model is run under
\* an agent whose execute runs quote the markers of the proposal format
QuotingConfig == [StrictConfig EXCEPT !.agent = "quoting"]

Environments ==
  Configs \cup {SafeRootConfig, SiblingConfig, OpenConfig, SessionConfig, QuotingConfig}

\* what a proposal run of the agent can print
ReadOnlyProposal == "NEEDS_APPROVAL: no\nRESPONSE: Done.\nCOMMANDS:\n- ls"

WriteProposal == "NEEDS_APPROVAL: yes\nSUMMARY: clean up\nCOMMANDS:\n- rm -rf /tmp/x"

MarkerProposal == "NEEDS_APPROVAL: no\nCOMMANDS:\n- echo NEEDS_APPROVAL: yes; rm -rf /"

FreeText == "I cannot do that."

\* a proposal that asks for approval, lists a file and runs a command that an
\* allow list can hold
EditProposal == "NEEDS_APPROVAL: yes\nCOMMANDS:\n- ls\nFILES:\n- a.txt"

CODEX_TIMEOUT_MS == 300000

\* What the agent process does once spawn is called: it fails to start, or
\* it writes stdout and closes closeAfter ms later.
\* stderr is what it prints besides its answer.
Exits(out) == [spawned |-> TRUE, stdout |-> out, stderr |-> "", closeAfter |-> 1000]

\* the process prints diag on stderr before its answer
Announces(diag, out) == [Exits(out) EXCEPT !.stderr = diag]

Hangs ==
  [spawned |-> TRUE, stdout |-> "thinking", stderr |-> "",
   closeAfter |-> CODEX_TIMEOUT_MS + 1000]

SpawnFails == [spawned |-> FALSE, stdout |-> "", stderr |-> "", closeAfter |-> 0]

TimeoutError == "Codex timed out after 300000ms"

SpawnError == "spawn codex ENOENT"

\* [stdout, stderr].filter(Boolean).join("\n").trim()
JoinOutputs(stdout, stderr) ==
  Trim(IF stdout = "" THEN stderr
       ELSE IF stderr = "" THEN stdout
       ELSE stdout \o "\n" \o stderr)

\* runProcess(args, input, cwd) for the process proc: the first of the
\* error event, the close event and the timer sets finished and settles the
\* promise; the timer kills the process with SIGKILL.  ok is resolved.
\* out is the last message of the agent, raw the text the promise resolves
\* with.
runProcess(proc) ==
  IF ~proc.spawned
    THEN [ok |-> FALSE, out |-> "", raw |-> "", error |-> SpawnError, signal |-> ""]
  ELSE IF proc.closeAfter < CODEX_TIMEOUT_MS
    THEN [ok |-> TRUE, out |-> Trim(proc.stdout), raw |-> JoinOutputs(proc.stdout, proc.stderr),
          error |-> "", signal |-> ""]
  ELSE [ok |-> FALSE, out |-> "", raw |-> "", error |-> TimeoutError, signal |-> "SIGKILL"]

Succeeded(out) == runProcess(Exits(out))

\* runProcess rejected with the error of the process
Rejected == runProcess(SpawnFails)

\* runProcess rejected after the timeout
TimedOut == runProcess(Hangs)

ProposalOutcomes ==
  {Succeeded(ReadOnlyProposal), Succeeded(WriteProposal), Succeeded(MarkerProposal),
   Succeeded(EditProposal), Succeeded(FreeText), TimedOut}

\* the text of an execute run that quotes the marker of a proposal
QuotingOutput == "wrote NEEDS_APPROVAL: yes to notes.txt"

ExecuteOutcomes == {Succeeded("removed"), Succeeded(QuotingOutput), Rejected, TimedOut}

\* the text of an execute run that quotes the marker twice, first with no
TwoMarkerOutput == "set NEEDS_APPROVAL: no, was NEEDS_APPROVAL: yes"

QuotingExecutions ==
  {Succeeded("removed"), Succeeded(QuotingOutput), Succeeded(TwoMarkerOutput), TimedOut}

\* stands for the outcomes of the processes that are not started
Idle == Succeeded("")

\* the banners of an agent that prints its session id
Banner1 == "workdir: /w\nsession id: s1\n"

Banner2 == "SESSION_ID:  s2-b\n"

\* the runs of an agent that prints its session id, and one that prints none
AnnouncedProposals ==
  {runProcess(Announces(Banner1, ReadOnlyProposal)),
   runProcess(Announces(Banner2, ReadOnlyProposal)),
   Succeeded(ReadOnlyProposal), TimedOut}

AnnouncedExecutions ==
  {runProcess(Announces(Banner1, "removed")), Succeeded("removed")}

\* the outcomes a process started in mode can have under the environment cfg
OutcomesOf(mode, cfg) ==
  IF cfg.agent = "announcing"
    THEN IF mode = "proposal" THEN AnnouncedProposals ELSE AnnouncedExecutions
  ELSE IF cfg.agent = "quoting"
    THEN IF mode = "proposal" THEN ProposalOutcomes ELSE QuotingExecutions
  ELSE IF mode = "proposal" THEN ProposalOutcomes ELSE ExecuteOutcomes

\* what runProcess can resolve with
RawOutputs ==
  {o.raw : o \in ProposalOutcomes \cup ExecuteOutcomes \cup AnnouncedProposals
                   \cup AnnouncedExecutions \cup QuotingExecutions \cup {Idle}}

\* the texts an agent process can leave
AgentOutputs ==
  {o.out : o \in ProposalOutcomes \cup ExecuteOutcomes \cup QuotingExecutions \cup {Idle}}

(***************************************************************************)
(* runner.ts: runCodexCli                                                  *)
(***************************************************************************)

\* the texts of runner.ts that are not ASCII, in English
BlockedPrefix == "commands blocked by policy^"

EmptyResponse == "(empty response)"

DefaultApprovalText == "I am ready to make the change and need your confirmation."

DefaultSummary == "ready to make the change"

OrElse(s, d) == IF s = "" THEN d ELSE s

\* One run of the agent process: ok is FALSE when runProcess rejects (timeout
\* or spawn error); out is what the run leaves as its output.
Invocation(request, workspaceDir, mode, outcome) ==
  [mode           |-> mode,
   request        |-> request,
   workspaceDir   |-> workspaceDir,
   sandbox        |-> IF mode = "proposal" THEN "read-only" ELSE "full-auto",
   ok             |-> outcome.ok,
   raw            |-> outcome.raw,
   error          |-> outcome.error,
   signal         |-> outcome.signal,
   output         |-> outcome.out]

MessageResponse(text) ==
  [type |-> "message", text |-> text, summary |-> "",
   parsedFalse |-> FALSE, blocked |-> FALSE, autoExecuted |-> FALSE]

NoResponse == MessageResponse("")

NeedsApprovalResponse(text, summary) ==
  [type |-> "needs_approval", text |-> text, summary |-> summary,
   parsedFalse |-> FALSE, blocked |-> FALSE, autoExecuted |-> FALSE]

\* a call of runCodex that returned resp / that threw, with the processes it ran
Returned(resp, invs) == [threw |-> FALSE, resp |-> resp, invs |-> invs]

Thrown(invs) == [threw |-> TRUE, resp |-> NoResponse, invs |-> invs]

\* a runner that starts no process in execute mode
ExecuteSkipped(request, workspaceDir, outs) == Returned(MessageResponse(EmptyResponse), <<>>)

\* runCodexCli in execute mode; outs[1] is the outcome of its process
RunExecute(request, workspaceDir, outs) ==
  LET inv == Invocation(request, workspaceDir, "execute", outs[1])
  IN IF ~outs[1].ok THEN Thrown(<<inv>>)
     ELSE Returned(MessageResponse(OrElse(Trim(outs[1].out), EmptyResponse)), <<inv>>)

\* runCodexCli(request, workspaceDir, mode, {allowAutoExecute}); outs are the
\* outcomes of the processes it starts, in the order in which it starts them;
\* allowAutoExecute is FALSE for options.allowAutoExecute === false
runCodexCli(request, workspaceDir, mode, allowAutoExecute, outs, cfg) ==
  LET inv == Invocation(request, workspaceDir, "proposal", outs[1])
      Decide(output, parsed, policy) ==
        IF policy.blocked
          THEN Returned([MessageResponse(BlockedPrefix \o Join(policy.blockedCommands, "; "))
                           EXCEPT !.blocked = TRUE], <<inv>>)
        ELSE IF ~computeApprovalDecision(parsed, policy)
          THEN IF policy.autoExecute /\ allowAutoExecute
                 THEN LET Relay(execResponse) ==
                            IF execResponse.threw THEN Thrown(<<inv>> \o execResponse.invs)
                            ELSE Returned([execResponse.resp EXCEPT !.autoExecuted = TRUE],
                                          <<inv>> \o execResponse.invs)
                      IN Relay(RunExecute(request, workspaceDir, Tail(outs)))
                 ELSE Returned(MessageResponse(OrElse(parsed.response, EmptyResponse)), <<inv>>)
        ELSE Returned(NeedsApprovalResponse(OrElse(parsed.response, DefaultApprovalText),
                                            OrElse(parsed.summary, DefaultSummary)), <<inv>>)
      Parsed(output, parsed) ==
        IF ~parsed.parsed
          THEN Returned([MessageResponse(OrElse(Trim(output), EmptyResponse))
                           EXCEPT !.parsedFalse = TRUE], <<inv>>)
          ELSE Decide(output, parsed, memo.policy[parsed.commands, cfg])
  IN IF mode = "execute" THEN RunExecute(request, workspaceDir, outs)
     ELSE IF ~outs[1].ok THEN Thrown(<<inv>>)
     ELSE Parsed(outs[1].out, memo.parse[outs[1].out])

runCodex(request, workspaceDir, mode, allowAutoExecute, outs, cfg) ==
  runCodexCli(request, workspaceDir, mode, allowAutoExecute, outs, cfg)

(***************************************************************************)
(* store/db.js.  The file is not part of the source tree; its functions    *)
(* are modelled from their use in router.ts and from the data model of the *)
(* specification.  `st` is the store: a record with one field for each     *)
(* variable of the router.                                                 *)
(***************************************************************************)

\* the value null of getPendingApproval
NoApproval == [id |-> 0]

PendingOf(st, conversationId) ==
  {i \in 1..Len(st.approvals) :
     /\ st.approvals[i].conversationId = conversationId
     /\ st.approvals[i].status = "pending"}

\* the most recent pending record of the conversation
getPendingApproval(st, conversationId) ==
  LET Latest(S) ==
        IF S = {} THEN NoApproval
        ELSE st.approvals[CHOOSE i \in S : \A j \in S : j <= i]
  IN Latest(PendingOf(st, conversationId))

createApproval(st, id, conversationId, payload) ==
  [st EXCEPT !.approvals =
     Append(@, [id |-> id, conversationId |-> conversationId,
                payload |-> payload, status |-> "pending"])]

updateApprovalStatus(st, id, status) ==
  LET old == st.approvals
  IN [st EXCEPT !.approvals =
        [i \in 1..Len(old) |->
           IF old[i].id = id THEN [old[i] EXCEPT !.status = status] ELSE old[i]]]

\* approval ids that repeat
RepeatedApprovalId(st) == 1

\* approval ids are built from the clock and a random suffix: each is new
NewApprovalId(st) == Len(st.approvals) + 1

saveMessage(st, conversationId, role, content) ==
  [st EXCEPT !.history[conversationId] =
     Append(@, [role |-> role, content |-> content])]

getRecentMessages(st, conversationId, limit) ==
  LET h == st.history[conversationId]
  IN IF Len(h) <= limit THEN h ELSE SubSeq(h, Len(h) - limit + 1, Len(h))

clearConversation(st, conversationId) ==
  [st EXCEPT !.history[conversationId] = <<>>]

\* getOrCreateConversation: one conversation for each chat
getOrCreateConversation(chatId) == chatId

\* a table of the store with text keys; a key without a row reads as ""
Lookup(f, k) == IF k \in DOMAIN f THEN f[k] ELSE ""

Bind(f, k, v) == [x \in DOMAIN f \cup {k} |-> IF x = k THEN v ELSE f[x]]

Unbind(f, k) == [x \in DOMAIN f \ {k} |-> f[x]]

NoSessions == [conv |-> <<>>, ws |-> <<>>, wsOf |-> <<>>]

getConversationCliSessionId(st, conversationId) == Lookup(st.sessions.conv, conversationId)

setConversationCliSessionId(st, conversationId, id) ==
  [st EXCEPT !.sessions.conv = Bind(@, conversationId, id)]

clearConversationCliSessionId(st, conversationId) ==
  [st EXCEPT !.sessions.conv = Unbind(@, conversationId)]

getCliSessionIdForWorkspace(st, workspaceDir) == Lookup(st.sessions.ws, workspaceDir)

setCliSessionIdForWorkspace(st, workspaceDir, id) ==
  [st EXCEPT !.sessions.ws = Bind(@, workspaceDir, id)]

clearCliSessionIdForWorkspace(st, workspaceDir) ==
  [st EXCEPT !.sessions.ws = Unbind(@, workspaceDir)]

getWorkspaceForCliSessionId(st, id) == Lookup(st.sessions.wsOf, id)

setWorkspaceForCliSessionId(st, id, workspaceDir) ==
  [st EXCEPT !.sessions.wsOf = Bind(@, id, workspaceDir)]

clearWorkspaceForCliSessionId(st, id) ==
  [st EXCEPT !.sessions.wsOf = Unbind(@, id)]

\* runner.ts
resetCodexCliSession(st, conversationId) == clearConversationCliSessionId(st, conversationId)

(***************************************************************************)
(* plugins/manager.ts                                                      *)
(***************************************************************************)

isInstalled(st, name) == name \in DOMAIN st.registry

isEnabled(st, name) == isInstalled(st, name) /\ st.registry[name].enabled

\* the configured runtime taken as it is, whatever was approved
ConfiguredRuntime(entry) ==
  [mode |-> entry.runtime.mode, sandbox |-> entry.runtime.sandbox]

resolveRuntimeInfo(entry) ==
  LET mode == IF entry.runtime.mode = "embed" /\ entry.approvedEmbed
                THEN "embed" ELSE "isolate"
      sandbox == IF /\ mode = "isolate"
                    /\ entry.runtime.sandbox = "off"
                    /\ entry.approvedSandboxOff
                   THEN "off" ELSE "on"
  IN [mode |-> mode, sandbox |-> sandbox]

\* runtimes: the runtime of a plugin, loaded FALSE when the map has no handle
NoRuntime == [loaded |-> FALSE, mode |-> "isolate", sandbox |-> "on"]

load(st, name) ==
  IF ~isEnabled(st, name) THEN st
  ELSE LET info == resolveRuntimeInfo(st.registry[name])
       IN [st EXCEPT !.runtimes[name] =
             [loaded |-> TRUE, mode |-> info.mode, sandbox |-> info.sandbox]]

unload(st, name) == [st EXCEPT !.runtimes[name] = NoRuntime]

reload(st, name) ==
  IF ~isEnabled(st, name) THEN st
  ELSE load(IF st.runtimes[name].loaded THEN unload(st, name) ELSE st, name)

\* the four operations below are applied to an installed plugin; on any other
\* name they throw before they change anything
approveEmbed(st, name) == [st EXCEPT !.registry[name].approvedEmbed = TRUE]

approveSandboxOff(st, name) == [st EXCEPT !.registry[name].approvedSandboxOff = TRUE]

\* setRuntimeMode with a mode that passes its approval test
setRuntimeMode(st, name, mode) ==
  reload([st EXCEPT !.registry[name].runtime.mode = mode], name)

setSandboxMode(st, name, sandbox) ==
  reload([st EXCEPT !.registry[name].runtime.sandbox = sandbox], name)

ensureRuntime(st, name) == load(st, name)

\* a directory that holds a plugin.json of the plugin market, which asks for
\* sandbox off; every other path of the model holds none
PluginSource == "/srv/market"

HasManifest(sourcePath) == sourcePath = PluginSource

\* installFromPath for a directory whose manifest asks for sandbox off: the
\* entry of the plugin is made anew, nothing approved, and the plugin is loaded
installFromPath(st, sourcePath) ==
  load([st EXCEPT !.registry =
          Bind(@, "market",
               [enabled |-> TRUE, builtin |-> FALSE, approvedEmbed |-> FALSE,
                approvedSandboxOff |-> FALSE,
                runtime |-> [mode |-> "isolate", sandbox |-> "off"]])],
       "market")

\* uninstall of a plugin that is installed and not builtin
uninstall(st, name) == [unload(st, name) EXCEPT !.registry = Unbind(@, name)]

(***************************************************************************)
(* router.ts: replies, payloads, the approval branch                       *)
(***************************************************************************)

\* a call of deps.sendMessage: the fixed text is named by kind, the part of
\* the text that varies is carried in text
Send(chatId, kind, text) == [chatId |-> chatId, kind |-> kind, text |-> text]

\* what a handler did: the store it leaves, the messages it sent, the agent
\* processes it ran, the command it dispatched to ("" for none) and what it
\* asked of the runtime of a plugin ("" for nothing)
Result(st, sent, invs) ==
  [st |-> st, sent |-> sent, invs |-> invs, command |-> "", rejected |-> FALSE,
   event |-> ""]

NoRequest ==
  [conversationId |-> "", userText |-> "", modelOverride |-> "",
   backendOverride |-> "", contextMessages |-> <<>>]

\* JSON.stringify({ type: "codex", request, workspaceDir }) and
\* JSON.stringify({ type: "plugin", action, name }): the payload is kept as
\* the object that JSON.parse gives back
CodexPayload(request, workspaceDir) ==
  [type |-> "codex", action |-> "", name |-> "",
   request |-> request, workspaceDir |-> workspaceDir]

PluginPayload(action, name) ==
  [type |-> "plugin", action |-> action, name |-> name,
   request |-> NoRequest, workspaceDir |-> ""]

NoOutput == "(no output)"

\* saveMessage + sendMessage of the text of an execute-mode response
\* a router that makes the approved records of the conversation pending
\* again when the execution fails
FailureReopens(st, conversationId, chatId, run, before) ==
  LET old == st.approvals
      reopened ==
        [i \in 1..Len(old) |->
           IF old[i].conversationId = conversationId /\ old[i].status = "approved"
             THEN [old[i] EXCEPT !.status = "pending"] ELSE old[i]]
  IN IF run.threw
       THEN Result([st EXCEPT !.approvals = reopened],
                   <<Send(chatId, "failed", "")>>, before \o run.invs)
     ELSE Result(saveMessage(st, conversationId, "assistant", run.resp.text),
                 <<Send(chatId, "relay", OrElse(run.resp.text, NoOutput))>>,
                 before \o run.invs)

RelayExecution(st, conversationId, chatId, run, before) ==
  IF run.threw THEN Result(st, <<Send(chatId, "failed", "")>>, before \o run.invs)
  ELSE Result(saveMessage(st, conversationId, "assistant", run.resp.text),
              <<Send(chatId, "relay", OrElse(run.resp.text, NoOutput))>>,
              before \o run.invs)

handleApprovalExecution(st, payload, conversationId, chatId, outs, cfg) ==
  IF payload.type = "plugin" /\ payload.action = "embed"
    THEN IF ~isInstalled(st, payload.name)
           THEN Result(st, <<Send(chatId, "failed", "")>>, <<>>)
           ELSE Result(setRuntimeMode(approveEmbed(st, payload.name), payload.name, "embed"),
                       <<Send(chatId, "embedApproved", payload.name)>>, <<>>)
  ELSE IF payload.type = "plugin" /\ payload.action = "sandbox_off"
    THEN IF ~isInstalled(st, payload.name)
           THEN Result(st, <<Send(chatId, "failed", "")>>, <<>>)
           ELSE Result(setSandboxMode(approveSandboxOff(st, payload.name), payload.name, "off"),
                       <<Send(chatId, "sandboxOffApproved", payload.name)>>, <<>>)
  ELSE IF payload.type = "codex"
    THEN RelayExecution(st, conversationId, chatId,
                        runCodex(payload.request, payload.workspaceDir, "execute",
                                 TRUE, outs, cfg),
                        <<>>)
  ELSE Result(st, <<Send(chatId, "unrecognized", "")>>, <<>>)

normalizeContinue(input) ==
  IF ToLower(Trim(input)) = "/continue" THEN "jixu" ELSE input

CONFIRM_COMMANDS == {"/confirm", "/approve"}

REJECT_COMMANDS == {"/cancel", "/reject"}

\* patterns that match no text / every text
MatchesNothing(text) == FALSE

MatchesEverything(text) == TRUE

\* CONFIRM_PATTERN.test(text) and REJECT_PATTERN.test(text)
CONFIRM_PATTERN(text) == ToLower(text) \in {"yes", "y", "queren", "hao", "ok", "zhixing"}

REJECT_PATTERN(text) == ToLower(text) \in {"no", "n", "quxiao", "buyao", "stop"}

IsRejectCommand(lower) ==
  lower \in REJECT_COMMANDS \/ StartsWith(lower, "/cancel") \/ StartsWith(lower, "/reject")

\* a router without the exit branch of a pending approval
ExitNotRecognised(text) == FALSE

IsExitCommand(text) ==
  StartsWith(text, "/") /\ ToLower(Trim(SliceFrom(text, 1))) = "exit"

\* a router that takes no text as a confirmation
ConfirmNotRecognised(text, lower) == FALSE

IsConfirm(text, lower) ==
  \/ lower \in CONFIRM_COMMANDS
  \/ StartsWith(lower, "/confirm")
  \/ StartsWith(lower, "/approve")
  \/ CONFIRM_PATTERN(text)

clearConversationPlugin(st, conversationId) == [st EXCEPT !.plugin[conversationId] = ""]

\* handleInbound when getPendingApproval returned the record pending
HandlePending(st, pending, normalizedText, conversationId, chatId, outs, cfg) ==
  LET Answer(text, lower) ==
        IF IsRejectCommand(lower)
          THEN Result(updateApprovalStatus(st, pending.id, "rejected"),
                      <<Send(chatId, "cancelled", "")>>, <<>>)
        ELSE IF IsExitCommand(text)
          THEN Result(clearConversationPlugin(
                        updateApprovalStatus(st, pending.id, "rejected"), conversationId),
                      <<Send(chatId, "exitedAndCancelled", "")>>, <<>>)
        ELSE IF IsConfirm(text, lower)
          THEN handleApprovalExecution(updateApprovalStatus(st, pending.id, "approved"),
                                       pending.payload, conversationId, chatId, outs, cfg)
        ELSE IF REJECT_PATTERN(text)
          THEN Result(updateApprovalStatus(st, pending.id, "rejected"),
                      <<Send(chatId, "cancelled", "")>>, <<>>)
        ELSE Result(st, <<Send(chatId, "reprompt", "")>>, <<>>)
      Trimmed(text) == Answer(text, ToLower(text))
  IN Trimmed(Trim(normalizedText))

(***************************************************************************)
(* router.ts: workspace, inline approval, the Codex turn                   *)
(***************************************************************************)

MAX_CONTEXT_MESSAGES == 20

\* the key of the global model in the model map of the store
GlobalModel == "*"

\* the value resolveWorkspaceDir returns
WorkspaceDirOf(st, conversationId) ==
  IF st.workspace[conversationId] # "" THEN st.workspace[conversationId]
  ELSE DATA_DIR \o "/workspaces/" \o conversationId

\* the store resolveWorkspaceDir leaves
resolveWorkspaceDir(st, conversationId) ==
  [st EXCEPT !.workspace[conversationId] = WorkspaceDirOf(st, conversationId)]

getAllowedDirs(st, cfg) == cfg.safeDirs \cup st.safeDirs

\* the test without the separator: a prefix of the characters
PrefixAllowed(st, target, cfg) ==
  LET allowed == cfg.safeDirs \cup st.safeDirs
  IN IF allowed = {} THEN TRUE
     ELSE \E root \in allowed : StartsWith(target, root)

\* paths are absolute and normalised, path.sep is "/"
isPathAllowed(st, target, cfg) ==
  LET allowed == getAllowedDirs(st, cfg)
  IN IF allowed = {} THEN TRUE
     ELSE \E root \in allowed : target = root \/ StartsWith(target, root \o "/")

getEffectiveModel(st, conversationId) ==
  IF st.model[conversationId] # "" THEN st.model[conversationId] ELSE st.model[GlobalModel]

\* the class [A-Z_] under the flag i
IsInlineLabelCh(c) == c \in LetterSet \/ c = "_"

RECURSIVE SkipInlineLabel(_, _)
SkipInlineLabel(s, i) ==
  IF i <= Len(s) /\ IsInlineLabelCh(Ch(s, i)) THEN SkipInlineLabel(s, i + 1) ELSE i

\* /\n[A-Z_]+\s*[:U+FF1A]/i matches at position i
InlineMarkerAt(s, i) ==
  /\ i <= Len(s) /\ Ch(s, i) = "\n"
  /\ SkipInlineLabel(s, i + 1) > i + 1
  /\ LET c == SkipWs(s, SkipInlineLabel(s, i + 1))
     IN c <= Len(s) /\ IsColon(Ch(s, c))

extractInlineSection(text, label) ==
  LET idx == MinOr0({i \in 1..Len(text) : MarkerEndAt(text, i, label) # 0})
  IN IF idx = 0 THEN ""
     ELSE LET start == SkipWs(text, MarkerEndAt(text, idx, label))
              stop == MinOr0({i \in start..Len(text) : InlineMarkerAt(text, i)})
          IN Trim(SubSeq(text, start, IF stop = 0 THEN Len(text) ELSE stop - 1))

\* the value null of parseInlineApproval
NoInlineApproval == [found |-> FALSE, summary |-> "", response |-> ""]

\* a parser that honours the marker at the start of the text only
MarkerLeads(text) ==
  IF NeedsAt(text, 1) # "yes" THEN NoInlineApproval
  ELSE [found    |-> TRUE,
        summary  |-> extractInlineSection(text, "SUMMARY"),
        response |-> extractInlineSection(text, "RESPONSE")]

parseInlineApproval(text) ==
  IF NeedsMatch(text) # "yes" THEN NoInlineApproval
  ELSE [found    |-> TRUE,
        summary  |-> extractInlineSection(text, "SUMMARY"),
        response |-> extractInlineSection(text, "RESPONSE")]

\* the command lists of the proposals of the table parse
CommandLists(parse) == {parse[o].commands : o \in {p \in DOMAIN parse : parse[p].parsed}}

\* the texts runCodex can return: the output of the agent, the response of
\* a proposal or the text that stands for it, the list of blocked commands
ResponseTexts(parse, policy) ==
  {OrElse(Trim(o), EmptyResponse) : o \in DOMAIN parse}
    \cup {OrElse(parse[o].response, d) :
            o \in {p \in DOMAIN parse : parse[p].parsed},
            d \in {EmptyResponse, DefaultApprovalText}}
    \cup {BlockedPrefix \o Join(policy[k].blockedCommands, "; ") : k \in DOMAIN policy}

\* the class [a-z0-9-] under the flag i
IsSessionCh(c) == c \in LetterSet \/ c \in CharsOf(Digits) \/ c = "-"

\* position after a run of [a-z0-9-]* that starts at position i
RECURSIVE SkipSessionChs(_, _)
SkipSessionChs(s, i) ==
  IF i <= Len(s) /\ IsSessionCh(Ch(s, i)) THEN SkipSessionChs(s, i + 1) ELSE i

\* output.match(/<label>\s*([a-z0-9-]+)/i)?.[1], "" for no match
SessionAfter(output, label) ==
  LET From(i) == SkipWs(output, i + Len(label))
      S == {i \in 1..Len(output) :
              /\ LitAt(output, i, label)
              /\ SkipSessionChs(output, From(i)) > From(i)}
      At(i) == SubSeq(output, From(i), SkipSessionChs(output, From(i)) - 1)
  IN IF S = {} THEN "" ELSE At(MinOr0(S))

\* "" stands for null
extractCliSessionId(output) ==
  OrElse(SessionAfter(output, "session id:"), SessionAfter(output, "session_id:"))

\* parseProposal on the outputs of the agent, evaluateCommandPolicy on their
\* command lists and parseInlineApproval on the texts runCodex can return,
\* as tables
MemoOf(parse, policy) ==
  [parse  |-> parse,
   policy |-> policy,
   inline |-> [text \in ResponseTexts(parse, policy) |-> parseInlineApproval(text)],
   session |-> [raw \in RawOutputs |-> extractCliSessionId(raw)]]

MemoOfParse(parse) ==
  MemoOf(parse, [commands \in CommandLists(parse), cfg \in Environments |->
                   evaluateCommandPolicy(commands, cfg)])

Memo == MemoOfParse([output \in AgentOutputs |-> parseProposal(output)])

\* the catch blocks of the router: the failure reply
\* a router that lets the error of the agent leave handleInbound
ErrorEscapes(st, chatId, invs) == [Result(st, <<>>, invs) EXCEPT !.rejected = TRUE]

\* a router that sends the text of the error
ErrorRelayed(st, chatId, invs) ==
  Result(st, <<Send(chatId, "relay", invs[Len(invs)].error)>>, invs)

Failure(st, chatId, invs) == Result(st, <<Send(chatId, "failed", "")>>, invs)

\* saveMessage + sendMessage of the text of a proposal-mode response
RelayText(st, conversationId, chatId, text, invs) ==
  Result(saveMessage(st, conversationId, "assistant", text),
         <<Send(chatId, "relay", text)>>, invs)

\* the outcomes left for the processes started after those of run
After(run, outs) == SubSeq(outs, Len(run.invs) + 1, Len(outs))

\* handleInbound, the branch of getConfirmNext; run is the proposal run and
\* exec the execute run that follows it
ForceExecuteTurn(st0, request, workspaceDir, conversationId, chatId, outs, cfg) ==
  LET st == [st0 EXCEPT !.confirmNext[conversationId] = FALSE]
      Decide(run, exec) ==
        IF run.threw THEN Failure(st, chatId, run.invs)
        ELSE IF run.resp.type = "needs_approval"
          THEN RelayExecution(st, conversationId, chatId, exec, run.invs)
        ELSE IF run.resp.text # ""
          THEN IF memo.inline[run.resp.text].found
                 THEN RelayExecution(st, conversationId, chatId, exec, run.invs)
                 ELSE RelayText(st, conversationId, chatId, run.resp.text, run.invs)
        ELSE Result(st, <<>>, run.invs)
      Proposed(run) ==
        Decide(run, runCodex(request, workspaceDir, "execute", TRUE, After(run, outs), cfg))
  IN Proposed(runCodex(request, workspaceDir, "proposal", TRUE, outs, cfg))

\* handleInbound, the branch of getWriteMode
\* a write mode that relays the proposal and executes nothing
WriteModeOnlyProposes(st, request, workspaceDir, conversationId, chatId, outs, cfg) ==
  LET Relayed(run) ==
        IF run.threw THEN Failure(st, chatId, run.invs)
        ELSE RelayText(st, conversationId, chatId, run.resp.text, run.invs)
  IN Relayed(runCodex(request, workspaceDir, "proposal", FALSE, outs, cfg))

\* handleInbound, the branch of getWriteMode
WriteModeTurn(st, request, workspaceDir, conversationId, chatId, outs, cfg) ==
  LET Decide(run, exec) ==
        IF run.threw THEN Failure(st, chatId, run.invs)
        ELSE IF run.resp.type = "needs_approval"
          THEN RelayExecution(st, conversationId, chatId, exec, run.invs)
        ELSE IF run.resp.text # ""
          THEN IF memo.inline[run.resp.text].found
                 THEN RelayExecution(st, conversationId, chatId, exec, run.invs)
               ELSE IF run.resp.blocked \/ run.resp.parsedFalse
                 THEN RelayText(st, conversationId, chatId, run.resp.text, run.invs)
               ELSE RelayExecution(st, conversationId, chatId, exec, run.invs)
        ELSE Result(st, <<>>, run.invs)
      Proposed(run) ==
        Decide(run, runCodex(request, workspaceDir, "execute", TRUE, After(run, outs), cfg))
  IN Proposed(runCodex(request, workspaceDir, "proposal", FALSE, outs, cfg))

\* a router that treats every conversation as being in write mode
WriteModeEverywhere(st, request, workspaceDir, conversationId, chatId, outs, cfg) ==
  WriteModeTurn(st, request, workspaceDir, conversationId, chatId, outs, cfg)

\* handleInbound, the branch without write mode
NormalTurn(st, request, workspaceDir, conversationId, chatId, outs, cfg) ==
  LET Decide(run, payload) ==
        IF run.threw THEN Failure(st, chatId, run.invs)
        ELSE IF run.resp.type = "needs_approval"
          THEN Result(createApproval(st, NewApprovalId(st), conversationId, payload),
                      <<Send(chatId, "approvalPrompt", run.resp.summary)>>, run.invs)
        ELSE IF run.resp.text # ""
          THEN IF memo.inline[run.resp.text].found
                 THEN Result(createApproval(st, NewApprovalId(st), conversationId, payload),
                             <<Send(chatId, "approvalPrompt",
                                    OrElse(memo.inline[run.resp.text].summary,
                                           DefaultSummary))>>,
                             run.invs)
                 ELSE RelayText(st, conversationId, chatId, run.resp.text, run.invs)
        ELSE Result(st, <<>>, run.invs)
  IN Decide(runCodex(request, workspaceDir, "proposal", TRUE, outs, cfg),
            CodexPayload(request, workspaceDir))

\* handleInbound from the resolution of the workspace to its end
CodexTurn(st0, normalizedText, conversationId, chatId, outs, cfg) ==
  LET ack == IF Trim(normalizedText) # "" THEN <<Send(chatId, "received", "")>> ELSE <<>>
      Turn(st2, request, workspaceDir) ==
        IF st2.confirmNext[conversationId]
          THEN ForceExecuteTurn(st2, request, workspaceDir, conversationId,
                                chatId, outs, cfg)
        ELSE IF st2.writeMode[conversationId]
          THEN WriteModeTurn(st2, request, workspaceDir, conversationId,
                             chatId, outs, cfg)
        ELSE NormalTurn(st2, request, workspaceDir, conversationId, chatId, outs, cfg)
      Resolved(st1, workspaceDir) ==
        IF ~isPathAllowed(st1, workspaceDir, cfg)
          THEN Result(st1, <<Send(chatId, "dirNotAllowed", "")>>, <<>>)
          ELSE [Turn(saveMessage(st1, conversationId, "user", normalizedText),
                     [conversationId  |-> conversationId,
                      userText        |-> normalizedText,
                      modelOverride   |-> getEffectiveModel(st1, conversationId),
                      backendOverride |-> st1.backend[conversationId],
                      contextMessages |-> getRecentMessages(st1, conversationId,
                                                            MAX_CONTEXT_MESSAGES)],
                     workspaceDir)
                  EXCEPT !.sent = ack \o @]
  IN Resolved(resolveWorkspaceDir(st0, conversationId), WorkspaceDirOf(st0, conversationId))

\* the last user message of recent that is not empty and not a command,
\* as an index of recent; 0 when there is none
LastUserIndex(recent) ==
  LET S == {i \in 1..Len(recent) :
              /\ recent[i].role = "user"
              /\ recent[i].content # ""
              /\ ~StartsWith(Trim(recent[i].content), "/")}
  IN IF S = {} THEN 0 ELSE CHOOSE i \in S : \A j \in S : j <= i

handleConfirmLast(st0, conversationId, chatId, outs, cfg) ==
  LET st1 == [st0 EXCEPT !.confirmNext[conversationId] = FALSE]
      Decide(st3, run, exec) ==
        IF run.threw THEN Failure(st3, chatId, run.invs)
        ELSE IF \/ run.resp.type = "needs_approval"
                \/ (run.resp.text # "" /\ memo.inline[run.resp.text].found)
          THEN RelayExecution(st3, conversationId, chatId, exec, run.invs)
        ELSE IF run.resp.text # ""
          THEN RelayText(st3, conversationId, chatId, run.resp.text, run.invs)
        ELSE Result(st3, <<>>, run.invs)
      Proposed(st3, request, workspaceDir, run) ==
        Decide(st3, run,
               runCodex(request, workspaceDir, "execute", TRUE, After(run, outs), cfg))
      Requested(st3, request, workspaceDir) ==
        Proposed(st3, request, workspaceDir,
                 runCodex(request, workspaceDir, "proposal", TRUE, outs, cfg))
      Resolved(st2, recent, last1, workspaceDir) ==
        IF last1 = 0 THEN Result(st1, <<Send(chatId, "noLastRequest", "")>>, <<>>)
        ELSE IF ~isPathAllowed(st2, workspaceDir, cfg)
          THEN Result(st2, <<Send(chatId, "dirNotAllowed", "")>>, <<>>)
        ELSE Requested([st2 EXCEPT !.backend[conversationId] = "cli"],
                       [conversationId  |-> conversationId,
                        userText        |-> recent[last1].content,
                        modelOverride   |-> getEffectiveModel(st2, conversationId),
                        backendOverride |-> "cli",
                        contextMessages |-> recent],
                       workspaceDir)
      Recent(recent) ==
        Resolved(resolveWorkspaceDir(st1, conversationId), recent, LastUserIndex(recent),
                 WorkspaceDirOf(st1, conversationId))
  IN Recent(getRecentMessages(st1, conversationId,
                              IF MAX_CONTEXT_MESSAGES > 50 THEN MAX_CONTEXT_MESSAGES ELSE 50))

(***************************************************************************)
(* router.ts: commands                                                     *)
(***************************************************************************)

\* the value null of parseCommand
NoCommand == [found |-> FALSE, name |-> "", args |-> <<>>]

parseCommand(text) ==
  IF ~StartsWith(text, "/") THEN NoCommand
  ELSE LET parts == SplitWs(Trim(text))
       IN [found |-> TRUE, name |-> SliceFrom(parts[1], 1), args |-> Tail(parts)]

PLUGINS == {"codex"}

\* the set without its first member
CliNotGuarded ==
  {"backend", "dir", "mode", "model", "resume", "status", "git",
   "confirm", "cancel", "restart"}

CODEX_ONLY_COMMANDS ==
  {"cli", "backend", "dir", "mode", "model", "resume", "status", "git",
   "confirm", "cancel", "restart"}

\* Array.prototype.includes
Includes(args, a) == \E i \in 1..Len(args) : args[i] = a

\* args[i0] with a 0-based index, "" for undefined
Arg(args, i0) == IF i0 < Len(args) THEN args[i0 + 1] ELSE ""

\* a reply and nothing else
Reply(st, chatId, kind, text) == Result(st, <<Send(chatId, kind, text)>>, <<>>)

\* case "cli" of handleCommand
handleCliCommand(st, args, conversationId, chatId) ==
  LET wantsWrite == Includes(args, "--write") \/ Includes(args, "write")
      wantsSafe == \/ Includes(args, "--safe") \/ Includes(args, "safe")
                   \/ Includes(args, "--ask") \/ Includes(args, "ask")
      st1 == [st EXCEPT !.backend[conversationId] = "cli"]
  IN IF wantsWrite /\ wantsSafe THEN Reply(st, chatId, "cliUsage", "")
     ELSE IF wantsWrite
       THEN Reply([st1 EXCEPT !.writeMode[conversationId] = TRUE,
                              !.confirmNext[conversationId] = FALSE],
                  chatId, "cliWrite", "")
     ELSE IF wantsSafe
       THEN Reply([st1 EXCEPT !.writeMode[conversationId] = FALSE,
                              !.confirmNext[conversationId] = FALSE],
                  chatId, "cliSafe", "")
     ELSE Reply(st1, chatId, "cli",
                IF st1.writeMode[conversationId] THEN "write mode on" ELSE "may ask")

\* case "cancel" of handleCommand
handleCancelCommand(st, conversationId, chatId) ==
  IF st.confirmNext[conversationId]
    THEN Reply([st EXCEPT !.confirmNext[conversationId] = FALSE], chatId, "oneShotOff", "")
  ELSE IF st.writeMode[conversationId]
    THEN Reply([st EXCEPT !.writeMode[conversationId] = FALSE], chatId, "writeModeOff", "")
  ELSE Reply(st, chatId, "nothingPending", "")

handleModelCommand(st, args, conversationId, chatId) ==
  IF Len(args) = 0
    THEN Reply(st, chatId, "model", getEffectiveModel(st, conversationId))
  ELSE IF args[1] = "set" /\ Len(args) >= 2
    THEN IF args[2] = "--global"
           THEN IF Arg(args, 2) = "" THEN Reply(st, chatId, "modelUsage", "")
                ELSE Reply([st EXCEPT !.model[GlobalModel] = args[3]],
                           chatId, "globalModelSet", args[3])
           ELSE Reply([st EXCEPT !.model[conversationId] = args[2]],
                      chatId, "modelSet", args[2])
  ELSE Reply(st, chatId, "modelUsage", "")

\* rawPath is absolute and normalised, or is relative to the workspace
handleWorkspaceCommand(st0, args, conversationId, chatId, cfg) ==
  LET st1 == resolveWorkspaceDir(st0, conversationId)
      rawPath == Join(Tail(args), " ")
      workspaceDir == IF StartsWith(rawPath, "/") THEN rawPath
                      ELSE WorkspaceDirOf(st0, conversationId) \o "/" \o rawPath
      st2 == [st1 EXCEPT !.safeDirs = @ \cup {workspaceDir}]
      Restored(st3) ==
        IF getCliSessionIdForWorkspace(st3, workspaceDir) # ""
          THEN setConversationCliSessionId(st3, conversationId,
                                           getCliSessionIdForWorkspace(st3, workspaceDir))
          ELSE st3
  IN IF Len(args) = 0
       THEN Reply(st1, chatId, "dir", WorkspaceDirOf(st0, conversationId))
     ELSE IF args[1] = "set" /\ Len(args) >= 2
       THEN IF ~isPathAllowed(st2, workspaceDir, cfg)
              THEN Reply(st2, chatId, "dirRejected", "")
              ELSE Reply(Restored(resetCodexCliSession(
                                    [st2 EXCEPT !.workspace[conversationId] = workspaceDir],
                                    conversationId)),
                         chatId, "dirSet", workspaceDir)
     ELSE Reply(st0, chatId, "dirUsage", "")

\* JSON and id of createPluginApproval
createPluginApproval(st, action, name, conversationId) ==
  createApproval(st, NewApprovalId(st), conversationId, PluginPayload(action, name))

\* the errors of the manager are caught and answered with the failure text
handlePluginCommand(st, args, conversationId, chatId) ==
  LET sub == OrElse(Arg(args, 0), "list")
      name == Arg(args, 1)
      mode == Arg(args, 2)
  IN IF sub = "list" THEN Reply(st, chatId, "pluginList", "")
     ELSE IF sub = "info"
       THEN IF name = "" THEN Reply(st, chatId, "pluginUsage", sub)
            ELSE IF ~isInstalled(st, name) THEN Reply(st, chatId, "pluginMissing", name)
            ELSE Reply(st, chatId, "pluginInfo", name)
     ELSE IF sub = "install"
       THEN IF Trim(Join(Tail(args), " ")) = "" THEN Reply(st, chatId, "pluginUsage", sub)
            ELSE IF ~HasManifest(Join(Tail(args), " "))
              THEN Reply(resolveWorkspaceDir(st, conversationId), chatId, "pluginFailed", "")
            ELSE Reply(installFromPath(resolveWorkspaceDir(st, conversationId),
                                       Join(Tail(args), " ")),
                       chatId, "pluginInstalled", "market")
     ELSE IF sub = "uninstall"
       THEN IF name = "" THEN Reply(st, chatId, "pluginUsage", sub)
            ELSE IF ~isInstalled(st, name) \/ st.registry[name].builtin
              THEN Reply(st, chatId, "pluginFailed", "")
            ELSE Reply(uninstall(st, name), chatId, "pluginUninstalled", name)
     ELSE IF sub = "enable"
       THEN IF name = "" THEN Reply(st, chatId, "pluginUsage", sub)
            ELSE IF ~isInstalled(st, name) THEN Reply(st, chatId, "pluginFailed", "")
            ELSE Reply(load([st EXCEPT !.registry[name].enabled = TRUE], name),
                       chatId, "pluginEnabled", name)
     ELSE IF sub = "disable"
       THEN IF name = "" THEN Reply(st, chatId, "pluginUsage", sub)
            ELSE IF ~isInstalled(st, name) THEN Reply(st, chatId, "pluginFailed", "")
            ELSE Reply(unload([st EXCEPT !.registry[name].enabled = FALSE], name),
                       chatId, "pluginDisabled", name)
     ELSE IF sub = "approve"
       THEN IF name = "" THEN Reply(st, chatId, "pluginUsage", sub)
            ELSE IF ~isInstalled(st, name) THEN Reply(st, chatId, "pluginFailed", "")
            ELSE Reply(approveEmbed(st, name), chatId, "pluginApproved", name)
     ELSE IF sub = "runtime"
       THEN IF name = "" \/ mode = "" THEN Reply(st, chatId, "pluginUsage", sub)
            ELSE IF mode # "isolate" /\ mode # "embed" THEN Reply(st, chatId, "pluginUsage", sub)
            ELSE IF ~isInstalled(st, name) THEN Reply(st, chatId, "pluginMissing", name)
            ELSE IF mode = "embed" /\ ~st.registry[name].approvedEmbed
              THEN Reply(createPluginApproval(st, "embed", name, conversationId),
                         chatId, "approvalPrompt", "embed " \o name)
            ELSE Reply(setRuntimeMode(st, name, mode), chatId, "pluginRuntimeSet", mode)
     ELSE IF sub = "sandbox"
       THEN IF name = "" \/ mode = "" THEN Reply(st, chatId, "pluginUsage", sub)
            ELSE IF mode # "on" /\ mode # "off" THEN Reply(st, chatId, "pluginUsage", sub)
            ELSE IF ~isInstalled(st, name) THEN Reply(st, chatId, "pluginMissing", name)
            ELSE IF mode = "off" /\ ~st.registry[name].approvedSandboxOff
              THEN Reply(createPluginApproval(st, "sandbox_off", name, conversationId),
                         chatId, "approvalPrompt", "sandbox off " \o name)
            ELSE Reply(setSandboxMode(st, name, mode), chatId, "pluginSandboxSet", mode)
     ELSE IF sub = "use"
       THEN IF name = "" THEN Reply(st, chatId, "pluginUsage", sub)
            ELSE IF ~isEnabled(st, name) THEN Reply(st, chatId, "pluginUnavailable", name)
            ELSE Reply([st EXCEPT !.plugin[conversationId] = name],
                       chatId, "entered", name)
     ELSE Reply(st, chatId, "pluginUsage", "")

\* the command of the plugin runs in the runtime of the plugin
handlePluginDirect(st, args, conversationId, chatId) ==
  IF Len(args) < 2 THEN Reply(st, chatId, "pUsage", "")
  ELSE IF ~isEnabled(st, args[1]) THEN Reply(st, chatId, "pluginUnavailable", args[1])
  ELSE [Result(ensureRuntime(resolveWorkspaceDir(st, conversationId), args[1]),
               <<>>, <<>>)
          EXCEPT !.event = "onCommand"]

\* git and restart run processes of the host and resume binds session ids:
\* they leave the store of this model as it is, apart from the workspace
\* default and the backend
\* case "resume" of handleCommand with the CLI backend
handleResumeCli(st0, id, conversationId, chatId, cfg) ==
  LET mappedWorkspace == getWorkspaceForCliSessionId(st0, id)
      st1 == IF mappedWorkspace # ""
               THEN [st0 EXCEPT !.workspace[conversationId] = mappedWorkspace]
               ELSE resolveWorkspaceDir(st0, conversationId)
      workspaceDir == WorkspaceDirOf(st1, conversationId)
  IN IF ~isPathAllowed(st1, workspaceDir, cfg)
       THEN Reply(st1, chatId, "dirNotAllowed", "")
     ELSE Reply([setWorkspaceForCliSessionId(
                   setCliSessionIdForWorkspace(
                     setConversationCliSessionId(st1, conversationId, id),
                     workspaceDir, id),
                   id, workspaceDir)
                   EXCEPT !.backend[conversationId] = "cli"],
                chatId, "resumed", id)

\* a reset that is never hard
ResetAlwaysSoft(st0, args, conversationId, chatId) ==
  Reply(resetCodexCliSession(clearConversation(st0, conversationId), conversationId),
        chatId, "reset",
        IF Includes(args, "--hard") \/ Includes(args, "hard") THEN "hard" ELSE "")

\* case "reset" of handleCommand
handleReset(st0, args, conversationId, chatId) ==
  LET st1 == resetCodexCliSession(clearConversation(st0, conversationId), conversationId)
      st2 == resolveWorkspaceDir(st1, conversationId)
      workspaceDir == WorkspaceDirOf(st1, conversationId)
      cliSessionId == getCliSessionIdForWorkspace(st2, workspaceDir)
      st3 == clearCliSessionIdForWorkspace(st2, workspaceDir)
  IN IF Includes(args, "--hard") \/ Includes(args, "hard")
       THEN Reply(IF cliSessionId # ""
                    THEN clearWorkspaceForCliSessionId(st3, cliSessionId)
                    ELSE st3,
                  chatId, "reset", "hard")
     ELSE Reply(st1, chatId, "reset", "")

handleCommand(st, command, conversationId, plugin1, chatId, outs, cfg) ==
  LET name == command.name
      args == command.args
  IN IF name \in PLUGINS
       THEN Reply([st EXCEPT !.plugin[conversationId] = name], chatId, "entered", name)
     ELSE IF name = "exit"
       THEN Reply(clearConversationPlugin(st, conversationId), chatId, "exited", "")
     ELSE IF name \in CODEX_ONLY_COMMANDS /\ plugin1 # "codex"
       THEN Reply(st, chatId, "notInCodex", "")
     ELSE IF name = "help" THEN Reply(st, chatId, "help", plugin1)
     ELSE IF name = "cli" THEN handleCliCommand(st, args, conversationId, chatId)
     ELSE IF name = "backend" THEN Reply(st, chatId, "backend", st.backend[conversationId])
     ELSE IF name = "mode" THEN Reply(st, chatId, "mode", st.backend[conversationId])
     ELSE IF name = "status"
       THEN Reply(resolveWorkspaceDir(st, conversationId), chatId, "status",
                  WorkspaceDirOf(st, conversationId))
     ELSE IF name = "dir" THEN handleWorkspaceCommand(st, args, conversationId, chatId, cfg)
     ELSE IF name = "git"
       THEN IF Len(args) = 0 THEN Reply(st, chatId, "gitUsage", "")
            ELSE Reply(resolveWorkspaceDir(st, conversationId), chatId, "git", "")
     ELSE IF name = "confirm"
       THEN IF Arg(args, 0) = "--last" \/ Arg(args, 0) = "last"
              THEN handleConfirmLast(st, conversationId, chatId, outs, cfg)
              ELSE Reply(st, chatId, "nothingPendingConfirm", "")
     ELSE IF name = "restart" THEN Reply(st, chatId, "restart", "")
     ELSE IF name = "cancel" THEN handleCancelCommand(st, conversationId, chatId)
     ELSE IF name = "resume"
       THEN IF Len(args) < 1 THEN Reply(st, chatId, "resumeUsage", "")
            ELSE handleResumeCli(st, args[1], conversationId, chatId, cfg)
     ELSE IF name = "reset"
       THEN handleReset(st, args, conversationId, chatId)
     ELSE IF name = "model" THEN handleModelCommand(st, args, conversationId, chatId)
     ELSE IF name = "plugin" THEN handlePluginCommand(st, args, conversationId, chatId)
     ELSE IF name = "p" THEN handlePluginDirect(st, args, conversationId, chatId)
     ELSE Reply(st, chatId, "unknownCommand", "")

(***************************************************************************)
(* router.ts: handleInbound                                                *)
(***************************************************************************)

\* handleInbound for a plugin other than codex
PluginMessage(st, plugin1, normalizedText, conversationId, chatId) ==
  IF ~isEnabled(st, plugin1) THEN Reply(st, chatId, "pluginUnavailable", plugin1)
  ELSE [Result(ensureRuntime(resolveWorkspaceDir(st, conversationId), plugin1),
               IF Trim(normalizedText) # "" THEN <<Send(chatId, "received", "")>>
               ELSE <<>>,
               <<>>)
          EXCEPT !.event = "onEvent"]

\* a router that answers the group messages that do not mention the bot
MentionNotRequired(msg) == FALSE

\* if (msg.isGroup && !msg.isMentioned)
IsUnmentionedGroup(msg) == msg.isGroup /\ ~msg.isMentioned

\* a router that does not look at the pending record
PendingIgnored(pending) == FALSE

\* if (pending): getPendingApproval returned a record
HasPendingApproval(pending) == pending.id # 0

\* msg: [chatId, text, isGroup, isMentioned]; outs: the outcomes of the agent
\* processes the handler starts, in order
handleInbound(st, msg, outs, cfg) ==
  LET conversationId == getOrCreateConversation(msg.chatId)
      plugin1 == st.plugin[conversationId]
      Route(normalizedText, pending, command) ==
        IF HasPendingApproval(pending)
          THEN HandlePending(st, pending, normalizedText, conversationId, msg.chatId,
                             outs, cfg)
        ELSE IF IsUnmentionedGroup(msg) THEN Result(st, <<>>, <<>>)
        ELSE IF command.found
          THEN [handleCommand(st, command, conversationId, plugin1, msg.chatId, outs, cfg)
                  EXCEPT !.command = "/" \o command.name]
        ELSE IF plugin1 = "" THEN Reply(st, msg.chatId, "noPlugin", "")
        ELSE IF plugin1 # "codex"
          THEN PluginMessage(st, plugin1, normalizedText, conversationId, msg.chatId)
        ELSE CodexTurn(st, normalizedText, conversationId, msg.chatId, outs, cfg)
      Normalized(normalizedText) ==
        Route(normalizedText, getPendingApproval(st, conversationId),
              parseCommand(normalizedText))
  IN Normalized(normalizeContinue(msg.text))

(***************************************************************************)
(* The router as a state machine: one step for each inbound message        *)
(***************************************************************************)

MaxApprovals == 2

MaxHistory == 2

\* a private chat and a group chat
Chats == {"c1", "g1"}

IsGroup(chatId) == chatId = "g1"

\* the builtin plugin registered by registerBuiltinPlugins
Builtin == "market"

\* The inbound texts of a run, for each chat.  A run takes its texts from one
\* of these profiles, so that the runs of the model are those of each profile
\* and not those of their union.
ApprovalTraffic ==
  [c \in Chats |->
     IF IsGroup(c) THEN {}
     ELSE {"/codex", "list the files", "yes", "no", "/cancel"}]

ExitTraffic ==
  [c \in Chats |->
     IF IsGroup(c) THEN {}
     ELSE {"/codex", "list the files", "no", "/cancel", "/exit",
           "/plugin runtime market embed"}]

AffirmTraffic ==
  [c \in Chats |->
     IF IsGroup(c) THEN {}
     ELSE {"/codex", "list the files", "/plugin sandbox market off",
           "/approve", "OK", "queren", "hello"}]

RejectTraffic ==
  [c \in Chats |->
     IF IsGroup(c) THEN {}
     ELSE {"/codex", "list the files", "/plugin sandbox market off",
           "/reject", "N", "buyao", "/ exit", "/cancel it"}]

CommandTraffic ==
  [c \in Chats |->
     IF IsGroup(c) THEN {}
     ELSE {"/codex", "list the files", "/continue", "/cli --write",
           "/model set m1", "/dir set /tmp/w"}]

WriteModeTraffic ==
  [c \in Chats |->
     IF IsGroup(c) THEN {}
     ELSE {"/codex", "/cli --write", "list the files", "/confirm --last", "/cancel"}]

TwoChatTraffic ==
  [c \in Chats |->
     IF IsGroup(c) THEN {"/codex", "list the files", "no"}
     ELSE {"/codex", "list the files"}]

Traffics ==
  {ApprovalTraffic, ExitTraffic, AffirmTraffic, RejectTraffic, CommandTraffic,
   WriteModeTraffic, TwoChatTraffic}

TextsOf(chatId) == traffic[chatId]

\* the store, read from the variables
Store ==
  [plugin |-> plugin, approvals |-> approvals, writeMode |-> writeMode,
   confirmNext |-> confirmNext, backend |-> backend, model |-> model,
   workspace |-> workspace, safeDirs |-> safeDirs, history |-> history,
   registry |-> registry, runtimes |-> runtimes, sessions |-> sessions]

\* Every way handleInbound(msg) can go from the current store: its results
\* for the outcomes that the agent processes it starts can have.  sofar are
\* the outcomes of the processes started so far.
RECURSIVE Handlings(_, _)
Handlings(msg, sofar) ==
  LET Outcomes(done) ==
        IF Len(done.invs) <= Len(sofar) THEN {done}
        ELSE UNION {Handlings(msg, Append(sofar, o)) :
                      o \in OutcomesOf(done.invs[Len(sofar) + 1].mode, config)}
  IN Outcomes(handleInbound(Store, msg, sofar \o <<Idle, Idle>>, config))

\* no function of the runner is applied on its own
NotApplied == [fn |-> "", input |-> <<>>, returned |-> FALSE, result |-> <<>>]

\* the function fn is about to be applied to input
Given(fn, input) == [fn |-> fn, input |-> input, returned |-> FALSE, result |-> <<>>]

\* the store and the queue after construction
\* IsolateRuntime.pending is empty and the worker runs
NoRequests ==
  [pending |-> [c \in Chats |-> <<>>], caught |-> [c \in Chats |-> FALSE],
   crashed |-> FALSE]

Constructed ==
  /\ memo = Memo
  /\ plugin = [c \in Chats |-> ""]
  /\ approvals = <<>>
  /\ writeMode = [c \in Chats |-> FALSE]
  /\ confirmNext = [c \in Chats |-> FALSE]
  /\ backend = [c \in Chats |-> ""]
  /\ model = [c \in Chats \cup {GlobalModel} |-> ""]
  /\ workspace = [c \in Chats |-> ""]
  /\ safeDirs = {}
  /\ history = [c \in Chats |-> <<>>]
  /\ registry = [n \in {Builtin} |->
                   [enabled |-> TRUE, builtin |-> TRUE, approvedEmbed |-> FALSE,
                    approvedSandboxOff |-> FALSE,
                    runtime |-> [mode |-> "isolate", sandbox |-> "on"]]]
  /\ runtimes = [n \in {Builtin} |-> NoRuntime]
  /\ sessions = NoSessions
  /\ last = [chatId |-> "", text |-> "", isGroup |-> FALSE, isMentioned |-> FALSE,
             pendingId |-> 0, writeMode |-> FALSE, sent |-> <<>>, invs |-> <<>>,
             command |-> "", rejected |-> FALSE, resumes |-> <<>>]
  /\ queues = [c \in Chats |-> <<>>]
  /\ processing = {}
  /\ inFlight = [c \in Chats |-> 0]
  /\ immediates = [c \in Chats |-> 0]
  /\ handled = [c \in Chats |-> <<>>]
  /\ enqueued = [c \in Chats |-> 0]
  /\ ipc = NoRequests
  /\ agents = [c \in Chats |-> <<>>]

Init ==
  /\ Constructed
  /\ config \in Configs
  /\ traffic \in Traffics
  /\ applied = NotApplied

\* a runner that resumes the session of the directory before that of the
\* conversation
WorkspaceSessionFirst(st, inv) ==
  OrElse(getCliSessionIdForWorkspace(st, inv.workspaceDir),
         getConversationCliSessionId(st, inv.request.conversationId))

\* runCodexCli: the id it resumes in the store st, "" for no resume directive
ResumeSessionId(st, inv) ==
  OrElse(getConversationCliSessionId(st, inv.request.conversationId),
         getCliSessionIdForWorkspace(st, inv.workspaceDir))

\* runCodexCli after runProcess has resolved: the id printed by the process,
\* or else the id resumed, is bound to the conversation and the directory
BindSession(st, inv) ==
  LET effectiveSessionId == OrElse(memo.session[inv.raw], ResumeSessionId(st, inv))
  IN IF effectiveSessionId = "" THEN st
     ELSE setWorkspaceForCliSessionId(
            setCliSessionIdForWorkspace(
              setConversationCliSessionId(st, inv.request.conversationId,
                                          effectiveSessionId),
              inv.workspaceDir, effectiveSessionId),
            effectiveSessionId, inv.workspaceDir)

\* The session bindings after the runs invs of one handling, in their order,
\* and the id each run resumed.  A run whose runProcess rejects binds
\* nothing.  No handler changes the bindings itself and runs the agent.
RECURSIVE AfterRuns(_, _)
AfterRuns(st, invs) ==
  IF invs = <<>> THEN [st |-> st, resumes |-> <<>>]
  ELSE LET inv == Head(invs)
           Rest(rest) == [st |-> rest.st,
                          resumes |-> <<ResumeSessionId(st, inv)>> \o rest.resumes]
       IN Rest(AfterRuns(IF inv.ok THEN BindSession(st, inv) ELSE st, Tail(invs)))

\* the store after handleInbound(msg, deps), and what the handling did:
\* rejected holds when the promise of handleInbound rejects
Handled(msg, done) ==
  LET conversationId == getOrCreateConversation(msg.chatId)
  IN /\ Len(done.st.approvals) <= MaxApprovals
     /\ \A c \in Chats : Len(done.st.history[c]) <= MaxHistory
     /\ plugin' = done.st.plugin
     /\ approvals' = done.st.approvals
     /\ writeMode' = done.st.writeMode
     /\ confirmNext' = done.st.confirmNext
     /\ backend' = done.st.backend
     /\ model' = done.st.model
     /\ workspace' = done.st.workspace
     /\ safeDirs' = done.st.safeDirs
     /\ history' = done.st.history
     /\ registry' = done.st.registry
     /\ runtimes' = done.st.runtimes
     /\ sessions' = AfterRuns(done.st, done.invs).st.sessions
     /\ last' = [chatId |-> msg.chatId, text |-> msg.text, isGroup |-> msg.isGroup,
                 isMentioned |-> msg.isMentioned,
                 pendingId |-> getPendingApproval(Store, conversationId).id,
                 writeMode |-> writeMode[conversationId],
                 sent |-> done.sent, invs |-> done.invs, command |-> done.command,
                 rejected |-> done.rejected,
                 resumes |-> AfterRuns(done.st, done.invs).resumes]

\* handleInbound(msg, deps) runs to its end
HandleInbound(msg, done) ==
  /\ Handled(msg, done)
  /\ UNCHANGED <<config, memo, traffic, queueVars, applied>>

Inbound ==
  \E chatId \in Chats :
    \E text \in TextsOf(chatId), isMentioned \in BOOLEAN :
      LET msg == [chatId |-> chatId, text |-> text, isGroup |-> IsGroup(chatId),
                  isMentioned |-> isMentioned]
      IN /\ IsGroup(chatId) \/ ~isMentioned
         /\ \E done \in Handlings(msg, <<>>) : HandleInbound(msg, done)

Next == Inbound

Spec == Init /\ [][Next]_vars

(***************************************************************************)
(* index.ts: PerChatQueue                                                  *)
(***************************************************************************)

MaxEnqueued == 3

\* the queue, read from the variables
Queue ==
  [queues |-> queues, processing |-> processing, inFlight |-> inFlight,
   handled |-> handled]

\* a queue that forgets which chats are being processed
ProcessingForgotten(q, chatId) == FALSE

\* this.processing.has(chatId)
IsProcessing(q, chatId) == chatId \in q.processing

\* a queue that gives the newest message of the list to the handler
NewestFirst(q, chatId) ==
  IF Len(q.queues[chatId]) = 0
    THEN [q EXCEPT !.processing = @ \ {chatId}]
    ELSE [q EXCEPT !.processing = @ \cup {chatId},
                   !.queues[chatId] = SubSeq(@, 1, Len(@) - 1),
                   !.inFlight[chatId] = @ + 1,
                   !.handled[chatId] = Append(@, q.queues[chatId][Len(q.queues[chatId])])]

\* a queue that keeps the chat marked as processing when its list is empty
NeverReleases(q, chatId) ==
  IF Len(q.queues[chatId]) = 0 THEN q
    ELSE [q EXCEPT !.processing = @ \cup {chatId},
                   !.queues[chatId] = Tail(@),
                   !.inFlight[chatId] = @ + 1,
                   !.handled[chatId] = Append(@, Head(q.queues[chatId]))]

\* processNext(chatId) up to its await: the handler is started on the head
\* of the list, or the chat is released when the list is empty
processNext(q, chatId) ==
  IF Len(q.queues[chatId]) = 0
    THEN [q EXCEPT !.processing = @ \ {chatId}]
    ELSE [q EXCEPT !.processing = @ \cup {chatId},
                   !.queues[chatId] = Tail(@),
                   !.inFlight[chatId] = @ + 1,
                   !.handled[chatId] = Append(@, Head(q.queues[chatId]))]

enqueue(q, chatId, msg) ==
  LET pushed == [q EXCEPT !.queues[chatId] = Append(@, msg)]
  IN IF ~IsProcessing(pushed, chatId) THEN processNext(pushed, chatId) ELSE pushed

SetQueue(q) ==
  /\ queues' = q.queues
  /\ processing' = q.processing
  /\ inFlight' = q.inFlight
  /\ handled' = q.handled

\* rtm.on("message"): the n-th message of a chat is named n
Enqueue(chatId) ==
  /\ enqueued[chatId] < MaxEnqueued
  /\ enqueued' = [enqueued EXCEPT ![chatId] = @ + 1]
  /\ SetQueue(enqueue(Queue, chatId, enqueued[chatId] + 1))
  /\ UNCHANGED <<immediates, ipc, agents, routerVars, applied>>

\* the handler of a chat resolves or rejects: the finally block of
\* processNext calls setImmediate
HandlerSettles(chatId) ==
  /\ inFlight[chatId] > 0
  /\ inFlight' = [inFlight EXCEPT ![chatId] = @ - 1]
  /\ immediates' = [immediates EXCEPT ![chatId] = @ + 1]
  /\ UNCHANGED <<queues, processing, handled, enqueued, ipc, agents, routerVars, applied>>

\* a callback given to setImmediate runs
RunImmediate(chatId) ==
  /\ immediates[chatId] > 0
  /\ immediates' = [immediates EXCEPT ![chatId] = @ - 1]
  /\ SetQueue(processNext(Queue, chatId))
  /\ UNCHANGED <<enqueued, ipc, agents, routerVars, applied>>

QueueNext ==
  \E chatId \in Chats :
    \/ Enqueue(chatId)
    \/ HandlerSettles(chatId)
    \/ RunImmediate(chatId)

SpecQueue == Init /\ [][QueueNext]_vars

(***************************************************************************)
(* Properties.  `last` is the message handled by the latest step of the    *)
(* router: its text, the pending record and the write mode it met, the     *)
(* messages sent and the agent processes run while handling it.            *)
(***************************************************************************)

\* the conversation of the message handled last
LastConversation == getOrCreateConversation(last.chatId)

\* the record that was pending when the message handled last arrived
LastPending == approvals[last.pendingId]

\* a record of the conversation is pending, read from the records themselves
PendingExists(conversationId) ==
  \E i \in 1..Len(approvals) :
    /\ approvals[i].conversationId = conversationId
    /\ approvals[i].status = "pending"

\* the policy result of the proposal run inv
ProposalPolicy(inv) ==
  memo.policy[memo.parse[inv.output].commands, config]

\* inv is a proposal run whose policy result has no blocked command and
\* autoExecute true
AutoExecutable(inv) ==
  /\ inv.mode = "proposal"
  /\ inv.ok
  /\ memo.parse[inv.output].parsed
  /\ ~ProposalPolicy(inv).blocked
  /\ ProposalPolicy(inv).autoExecute

\* inv is a proposal run whose command list matches a block pattern
BlockedRun(inv) ==
  /\ inv.mode = "proposal"
  /\ inv.ok
  /\ memo.parse[inv.output].parsed
  /\ ProposalPolicy(inv).blocked

\* the replies to a pending approval, as the specification lists them
AffirmativeWords == {"/confirm", "/approve", "yes", "y", "queren", "hao", "ok", "zhixing"}

RejectionWords == {"/cancel", "/reject", "no", "n", "quxiao", "buyao", "stop"}

Affirmative(text) == ToLower(Trim(text)) \in AffirmativeWords

Rejection(text) == ToLower(Trim(text)) \in RejectionWords

ExitText(text) == ToLower(Trim(text)) = "/exit"

\* every listed word is taken by the branch of the router it is listed for
AffirmativeWordsConfirm ==
  \A w \in AffirmativeWords :
    /\ ~IsRejectCommand(w)
    /\ ~IsExitCommand(w)
    /\ IsConfirm(w, ToLower(w))

RejectionWordsReject ==
  \A w \in RejectionWords :
    \/ IsRejectCommand(w)
    \/ /\ ~IsExitCommand(w)
       /\ ~IsConfirm(w, ToLower(w))
       /\ REJECT_PATTERN(w)

ExitWordExits == ~IsRejectCommand("/exit") /\ IsExitCommand("/exit")

\* C1: with write mode off, every execute-mode run of the agent is (a) the
\* run of a record that was pending for the conversation and has just been
\* approved by the message, (b) the run made inside a proposal run whose
\* policy result has no blocked command and autoExecute true, or (c) part of
\* handling `/confirm --last`.
C1_ExecuteNeedsAuthorisation ==
  (last.chatId # "" /\ ~last.writeMode) =>
    \A i \in 1..Len(last.invs) :
      last.invs[i].mode = "execute" =>
        \/ /\ last.pendingId # 0
           /\ LastPending.conversationId = LastConversation
           /\ LastPending.status = "approved"
        \/ /\ i > 1
           /\ AutoExecutable(last.invs[i - 1])
        \/ Trim(last.text) = "/confirm --last"

\* an automatic execution: no pending record, not `/confirm --last`
C1_Witness ==
  /\ last.chatId # ""
  /\ ~last.writeMode
  /\ last.pendingId = 0
  /\ Trim(last.text) # "/confirm --last"
  /\ \E i \in 1..Len(last.invs) : last.invs[i].mode = "execute"

\* C2: when the command list of a proposal matches a block pattern, the
\* turn ends with a plain message that names the blocked commands: no
\* execute-mode run is made and no ApprovalRecord is created, in every mode
\* of the router.
C2_BlockedEndsTurn ==
  [][\A i \in 1..Len(last'.invs) :
       BlockedRun(last'.invs[i]) =>
         /\ \A j \in 1..Len(last'.invs) : last'.invs[j].mode # "execute"
         /\ Len(approvals') = Len(approvals)
         /\ \E k \in 1..Len(last'.sent) :
              /\ last'.sent[k].kind = "relay"
              /\ last'.sent[k].text =
                   BlockedPrefix \o Join(ProposalPolicy(last'.invs[i]).blockedCommands, "; ")]_vars

\* C3: at most one handler of a chat is in flight.
C3_OneHandlerPerChat == \A c \in Chats : inFlight[c] <= 1

\* the third message of a chat waits while the second is handled
C3_Witness ==
  \E c \in Chats :
    /\ inFlight[c] = 1
    /\ Len(handled[c]) = 2
    /\ Len(queues[c]) = 1

\* C4: a message of a conversation with a pending approval is handled only
\* as an answer: no command handler runs, no proposal-mode run starts, no
\* record is created, and backend, model, workspace and write mode stay.
C4_PendingAnswersOnly ==
  [][PendingExists(getOrCreateConversation(last'.chatId)) =>
       /\ last'.command = ""
       /\ \A i \in 1..Len(last'.invs) : last'.invs[i].mode # "proposal"
       /\ Len(approvals') = Len(approvals)
       /\ backend' = backend
       /\ model' = model
       /\ workspace' = workspace
       /\ writeMode' = writeMode]_vars

\* a slash command that arrived while an approval was pending
C4_Witness ==
  /\ last.pendingId # 0
  /\ StartsWith(last.text, "/plugin")
  /\ last.command = ""
  /\ LastPending.status = "pending"

\* C5: a record is created pending; its status changes only from pending,
\* only to approved or rejected, only while a message of its conversation
\* is handled; records are never removed and nothing else of them changes.
C5_StatusChangesOnce ==
  [][/\ Len(approvals') >= Len(approvals)
     /\ \A i \in 1..Len(approvals) :
          /\ approvals'[i].id = approvals[i].id
          /\ approvals'[i].conversationId = approvals[i].conversationId
          /\ approvals'[i].payload = approvals[i].payload
          /\ approvals'[i].status # approvals[i].status =>
               /\ approvals[i].status = "pending"
               /\ approvals'[i].status \in {"approved", "rejected"}
               /\ approvals[i].conversationId = getOrCreateConversation(last'.chatId)
     /\ \A i \in (Len(approvals) + 1)..Len(approvals') :
          approvals'[i].status = "pending"]_vars

\* one record has been approved and another rejected
C5_Witness ==
  \E i, j \in 1..Len(approvals) :
    /\ approvals[i].status = "approved"
    /\ approvals[j].status = "rejected"

\* C6: a conversation has at most one pending record.
C6_OnePendingPerConversation ==
  \A c \in Chats :
    Cardinality({i \in 1..Len(approvals) :
                   /\ approvals[i].conversationId = c
                   /\ approvals[i].status = "pending"}) <= 1

\* a new request arrived while an approval was pending
C6_Witness ==
  /\ last.pendingId # 0
  /\ last.text = "list the files"
  /\ LastPending.status = "pending"
  /\ Len(approvals) < MaxApprovals

\* C7: an affirmative reply to a pending agent approval sets the record to
\* approved and makes exactly one execute-mode run, with the stored request
\* and workspace; the text the run returns is sent to the chat.
C7_ConfirmExecutesOnce ==
  /\ AffirmativeWordsConfirm
  /\ (last.pendingId # 0 /\ LastPending.payload.type = "codex" /\ Affirmative(last.text)) =>
       /\ LastPending.status = "approved"
       /\ Len(last.invs) = 1
       /\ last.invs[1].mode = "execute"
       /\ last.invs[1].request = LastPending.payload.request
       /\ last.invs[1].workspaceDir = LastPending.payload.workspaceDir
       /\ last.invs[1].ok =>
            last.sent = <<Send(last.chatId, "relay",
                               OrElse(Trim(last.invs[1].output), EmptyResponse))>>

\* an approved agent request has run and its text was relayed
C7_Witness ==
  /\ last.pendingId # 0
  /\ LastPending.payload.type = "codex"
  /\ Affirmative(last.text)
  /\ Len(last.invs) = 1
  /\ last.invs[1].ok

\* C8: a rejection reply to a pending approval sets the record to rejected;
\* no agent process is started, the action of the payload is not applied,
\* and the cancellation is acknowledged.
C8_RejectCancels ==
  [][/\ RejectionWordsReject
     /\ \A i \in 1..Len(approvals) :
          (/\ approvals[i].status = "pending"
           /\ approvals[i].conversationId = getOrCreateConversation(last'.chatId)
           /\ Rejection(last'.text)) =>
            /\ approvals'[i].status = "rejected"
            /\ last'.invs = <<>>
            /\ registry' = registry
            /\ runtimes' = runtimes
            /\ last'.sent = <<Send(last'.chatId, "cancelled", "")>>]_vars

\* a plugin-governance approval has been rejected
C8_Witness ==
  /\ last.pendingId # 0
  /\ LastPending.payload.type = "plugin"
  /\ Rejection(last.text)
  /\ LastPending.status = "rejected"

\* the step sends the re-prompt and nothing else, and leaves the store as
\* it was
RepromptOnly ==
  /\ last'.sent = <<Send(last'.chatId, "reprompt", "")>>
  /\ last'.invs = <<>>
  /\ UNCHANGED <<plugin, approvals, writeMode, confirmNext, backend, model,
                 workspace, safeDirs, history, registry, runtimes>>

\* the texts the approval branch takes as an answer: the listed words, any
\* text that begins with one of the four commands, and a slash followed by
\* blanks and "exit"
TakenAsAnswer(text) ==
  LET t == Trim(text)
      lower == ToLower(t)
  IN \/ Affirmative(text)
     \/ Rejection(text)
     \/ \E c \in {"/confirm", "/approve", "/cancel", "/reject"} : StartsWith(lower, c)
     \/ StartsWith(t, "/") /\ ToLower(Trim(SliceFrom(t, 1))) = "exit"

\* C9: with an approval pending, a message that is neither affirmative, a
\* rejection nor `/exit` only gets the re-prompt: the record stays pending
\* with its payload, no process is started, nothing else changes.
C9_OtherTextReprompts ==
  [][(/\ PendingExists(getOrCreateConversation(last'.chatId))
      /\ ~Affirmative(last'.text)
      /\ ~Rejection(last'.text)
      /\ ~ExitText(last'.text)) => RepromptOnly]_vars

\* C9, amended: with an approval pending, a message that is none of the
\* listed words, does not begin with /confirm, /approve, /cancel or /reject
\* and is not a slash followed by blanks and "exit" only gets the re-prompt.
C9_UnmatchedTextReprompts ==
  [][(/\ PendingExists(getOrCreateConversation(last'.chatId))
      /\ ~TakenAsAnswer(normalizeContinue(last'.text))) => RepromptOnly]_vars

\* a text that is no answer arrived while an approval was pending
C9_Witness ==
  /\ last.pendingId # 0
  /\ ~TakenAsAnswer(normalizeContinue(last.text))
  /\ last.sent = <<Send(last.chatId, "reprompt", "")>>
  /\ LastPending.status = "pending"

\* C10: `/exit` with an approval pending sets the record to rejected,
\* clears the plugin of the conversation and notifies the user; no agent
\* process is started; afterwards the conversation has no pending approval
\* and no active plugin.
C10_ExitRejectsAndLeaves ==
  /\ ExitWordExits
  /\ (last.pendingId # 0 /\ ExitText(last.text)) =>
       /\ LastPending.status = "rejected"
       /\ plugin[LastConversation] = ""
       /\ last.sent = <<Send(last.chatId, "exitedAndCancelled", "")>>
       /\ last.invs = <<>>
       /\ ~PendingExists(LastConversation)

\* the Codex plugin was left with an agent approval pending
C10_Witness ==
  /\ last.pendingId # 0
  /\ ExitText(last.text)
  /\ LastPending.payload.type = "codex"
  /\ plugin[LastConversation] = ""

\* the store: what the router keeps about plugins, approvals, sessions,
\* workspaces and message history
storeVars ==
  <<plugin, approvals, writeMode, confirmNext, backend, model, workspace,
    safeDirs, history, registry, runtimes, sessions>>

\* the message handled by the step comes from a group and does not mention
\* the bot
UnmentionedStep == last'.isGroup /\ ~last'.isMentioned

\* C11: with no approval pending, a group message that does not mention the
\* bot is ignored: nothing is sent, no agent process is started and the
\* store stays as it is.
C11_UnmentionedGroupIgnored ==
  [][(UnmentionedStep /\ ~PendingExists(getOrCreateConversation(last'.chatId))) =>
       /\ last'.sent = <<>>
       /\ last'.invs = <<>>
       /\ UNCHANGED storeVars]_vars

\* an unmentioned request in a group whose conversation is in the Codex
\* plugin has been ignored
C11_Witness ==
  /\ last.isGroup
  /\ ~last.isMentioned
  /\ last.pendingId = 0
  /\ last.text = "list the files"
  /\ plugin[LastConversation] = "codex"
  /\ last.sent = <<>>

\* C12: a group message that does not mention the bot never triggers
\* anything, whether an approval is pending or not: no reply, no change of
\* an approval status, no agent process.
C12_UnmentionedNeverTriggers ==
  [][UnmentionedStep =>
       /\ last'.sent = <<>>
       /\ last'.invs = <<>>
       /\ Len(approvals') = Len(approvals)
       /\ \A i \in 1..Len(approvals) : approvals'[i].status = approvals[i].status]_vars

\* the step handled a message that is no command, with no approval pending
\* and write mode off, and its first agent process is a proposal run that
\* printed a proposal
PlainTurnProposal ==
  /\ last.chatId # ""
  /\ last.pendingId = 0
  /\ ~last.writeMode
  /\ last.command = ""
  /\ Len(last.invs) >= 1
  /\ last.invs[1].mode = "proposal"
  /\ last.invs[1].ok
  /\ memo.parse[last.invs[1].output].parsed

\* the proposal of the step says NEEDS_APPROVAL: yes, lists a file and has
\* no blocked command
AsksApprovalForFiles ==
  /\ PlainTurnProposal
  /\ memo.parse[last.invs[1].output].needsApproval
  /\ Len(memo.parse[last.invs[1].output].files) > 0
  /\ ~ProposalPolicy(last.invs[1]).blocked

\* the step left a pending record for the request of its proposal run and
\* made no execute-mode run
PendingCreatedNoExecute ==
  /\ \A j \in 1..Len(last.invs) : last.invs[j].mode # "execute"
  /\ Len(approvals) > 0
  /\ approvals[Len(approvals)].status = "pending"
  /\ approvals[Len(approvals)].conversationId = LastConversation
  /\ approvals[Len(approvals)].payload.type = "codex"
  /\ approvals[Len(approvals)].payload.request = last.invs[1].request

AllowedProposal ==
  /\ PlainTurnProposal
  /\ ~memo.parse[last.invs[1].output].needsApproval
  /\ memo.parse[last.invs[1].output].files = <<>>
  /\ ~ProposalPolicy(last.invs[1]).blocked
  /\ ProposalPolicy(last.invs[1]).autoExecute

\* the message sent last while handling the step
LastSent == last.sent[Len(last.sent)]

\* the text runCodexCli returns for the execute run inv
ExecuteText(inv) == OrElse(Trim(inv.output), EmptyResponse)

\* C14: for a proposal whose commands are all allowed, the router relays the
\* RESPONSE text of the proposal, creates no approval, and the proposal run
\* is the only agent process of the turn.
C14_AllowedRelaysResponse ==
  AllowedProposal =>
    /\ Len(last.invs) = 1
    /\ ~PendingExists(LastConversation)
    /\ LastSent = Send(last.chatId, "relay",
                       OrElse(memo.parse[last.invs[1].output].response, EmptyResponse))

\* C14, amended: for a proposal whose commands are all allowed, the turn
\* has two agent processes, the proposal run and an execute run of the same
\* request in the same workspace; the failure reply is sent when the execute
\* run fails, and otherwise its text is relayed and no approval is created,
\* unless that text holds the marker NEEDS_APPROVAL: yes.
C14_AllowedRunsAtOnce ==
  AllowedProposal =>
    /\ Len(last.invs) = 2
    /\ last.invs[2].mode = "execute"
    /\ last.invs[2].request = last.invs[1].request
    /\ last.invs[2].workspaceDir = last.invs[1].workspaceDir
    /\ ~last.invs[2].ok =>
         /\ LastSent = Send(last.chatId, "failed", "")
         /\ ~PendingExists(LastConversation)
    /\ (last.invs[2].ok /\ ~memo.inline[ExecuteText(last.invs[2])].found) =>
         /\ LastSent = Send(last.chatId, "relay", ExecuteText(last.invs[2]))
         /\ ~PendingExists(LastConversation)

\* an allowed proposal was executed at once and the text of the run relayed
C14_Witness ==
  /\ AllowedProposal
  /\ Len(last.invs) = 2
  /\ last.invs[2].ok
  /\ LastSent = Send(last.chatId, "relay", "removed")

\* the step ran a proposal whose output holds no NEEDS_APPROVAL marker
UnmarkedProposal ==
  /\ last.chatId # ""
  /\ Len(last.invs) >= 1
  /\ last.invs[1].mode = "proposal"
  /\ last.invs[1].ok
  /\ NeedsMatch(last.invs[1].output) = ""

\* C15: an output without the NEEDS_APPROVAL marker is not parsed, and the
\* whole trimmed output is relayed as a plain message: no failure reply, no
\* approval and no execute run, in normal mode and in write mode.
C15_UnmarkedOutputRelayed ==
  UnmarkedProposal =>
    /\ memo.parse[last.invs[1].output] = NoProposal
    /\ Len(last.invs) = 1
    /\ last.sent # <<>>
    /\ LastSent = Send(last.chatId, "relay",
                       OrElse(Trim(last.invs[1].output), EmptyResponse))
    /\ \A i \in 1..Len(last.sent) : last.sent[i].kind # "failed"
    /\ ~PendingExists(LastConversation)

\* in write mode an output without the marker was relayed and nothing ran
C15_Witness ==
  /\ UnmarkedProposal
  /\ last.writeMode
  /\ Len(last.invs) = 1
  /\ LastSent = Send(last.chatId, "relay", FreeText)

(***************************************************************************)
(* runner.ts: parseProposal applied to a proposal written in the format    *)
(* that buildPrompt asks of the agent                                      *)
(***************************************************************************)

\* COMMANDS:\n- <command or none> and FILES:\n- <file or none>
RECURSIVE Bullets(_)
Bullets(list) ==
  IF list = <<>> THEN ""
  ELSE "- " \o Head(list) \o "\n" \o Bullets(Tail(list))

BulletsOrNone(list) == IF list = <<>> THEN "- none\n" ELSE Bullets(list)

\* the proposal P written in the output format of the proposal prompt
serialize(P) ==
  "NEEDS_APPROVAL: " \o (IF P.needsApproval THEN "yes" ELSE "no") \o "\n"
    \o "SUMMARY: " \o P.summary \o "\n"
    \o "COMMANDS:\n" \o BulletsOrNone(P.commands)
    \o "FILES:\n" \o BulletsOrNone(P.files)
    \o "RESPONSE:\n" \o P.response

MaxCommands == 2
MaxFiles == 1

SeqsUpTo(S, n) == UNION {[1..k -> S] : k \in 0..n}

Summaries == {"", "List the files", "Run these commands: ls", " Remove x "}
CommandItems == {"ls", "rm -rf /tmp/x", "None", "cat files: a"}
FileItems == {"a.txt", "none"}
Responses == {"", "Done.", "Done.\nNOTE: see the log", "one\ntwo"}

Proposals ==
  [needsApproval : BOOLEAN, summary : Summaries,
   commands : SeqsUpTo(CommandItems, MaxCommands),
   files : SeqsUpTo(FileItems, MaxFiles), response : Responses]

InitRoundTrip ==
  /\ Constructed
  /\ config = DefaultConfig
  /\ traffic = ApprovalTraffic
  /\ applied \in {Given("parseProposal", P) : P \in Proposals}

\* parseProposal(output) returns for the written proposal
ParseWritten ==
  /\ applied.fn = "parseProposal"
  /\ ~applied.returned
  /\ applied' = [applied EXCEPT !.returned = TRUE,
                                !.result = parseProposal(serialize(applied.input))]
  /\ UNCHANGED <<routerVars, queueVars>>

RoundTripNext == ParseWritten

SpecRoundTrip == InitRoundTrip /\ [][RoundTripNext]_vars

\* the label, followed by a colon, occurs in s (in either case)
HasLabel(s, label) == \E i \in 1..Len(s) : MarkerEndAt(s, i, label) # 0

\* s is one line without blanks around it
OneLine(s) == Trim(s) = s /\ \A i \in 1..Len(s) : Ch(s, i) \notin {"\n", "\r"}

\* s can be written as an item of a list section
ListItem(s) == OneLine(s) /\ s # "" /\ ToLower(s) # "none"

\* the parsed proposal has the fields of P
SameProposal(parsed, P) ==
  /\ parsed.parsed
  /\ parsed.needsApproval = P.needsApproval
  /\ parsed.summary = P.summary
  /\ parsed.commands = P.commands
  /\ parsed.files = P.files
  /\ parsed.response = P.response

\* C16: parsing a written proposal gives back its needsApproval, summary,
\* commands, files and response, whatever the proposal is.
C16_RoundTrip ==
  (applied.fn = "parseProposal" /\ applied.returned) =>
    SameProposal(applied.result, applied.input)

\* the fields of P survive the format: one-line trimmed summary, one-line
\* trimmed items that are not empty and not "none", a trimmed response with
\* no line that starts with a label in capitals and a colon, and no
\* COMMANDS:, FILES: or RESPONSE: label inside a field written before the
\* section of that label
WellFormed(P) ==
  /\ OneLine(P.summary)
  /\ \A i \in 1..Len(P.commands) : ListItem(P.commands[i])
  /\ \A i \in 1..Len(P.files) : ListItem(P.files[i])
  /\ Trim(P.response) = P.response
  /\ \A i \in 1..(Len(P.response) + 1) : ~NextMarkerAt("\n" \o P.response, i)
  /\ ~HasLabel(P.summary, "COMMANDS")
  /\ ~HasLabel(P.summary, "FILES")
  /\ ~HasLabel(P.summary, "RESPONSE")
  /\ \A i \in 1..Len(P.commands) :
       ~HasLabel(P.commands[i], "FILES") /\ ~HasLabel(P.commands[i], "RESPONSE")
  /\ \A i \in 1..Len(P.files) : ~HasLabel(P.files[i], "RESPONSE")

\* C16, amended: parsing a written proposal gives back its fields when the
\* fields survive the format.
C16_RoundTripWellFormed ==
  (applied.fn = "parseProposal" /\ applied.returned /\ WellFormed(applied.input)) =>
    SameProposal(applied.result, applied.input)

\* a proposal with two commands, a file and a response of two lines came back
C16_Witness ==
  /\ applied.fn = "parseProposal"
  /\ applied.returned
  /\ WellFormed(applied.input)
  /\ applied.input.commands = <<"ls", "rm -rf /tmp/x">>
  /\ applied.input.files = <<"a.txt">>
  /\ applied.input.response = "one\ntwo"
  /\ SameProposal(applied.result, applied.input)

(***************************************************************************)
(* runner.ts: matchesAny applied to one command and a list of patterns     *)
(***************************************************************************)

LiteralPatterns == {"rm", "RM", "dd", "--force", "rm -rf /", "a.b"}

PatternLists == {<<>>} \cup {<<p>> : p \in LiteralPatterns}

CommandStrings ==
  {"permission denied", "rm -rf /tmp/x", "rm -rf /", "sudo Rm x", "farm", "x-rm",
   "git push --force", "git push--force", "cat a.b", "cat axb", "add file", "dd if=a"}

InitMatch ==
  /\ Constructed
  /\ config = DefaultConfig
  /\ traffic = ApprovalTraffic
  /\ applied \in {Given("matchesAny", [command |-> c, list |-> l]) :
                    c \in CommandStrings, l \in PatternLists}

\* matchesAny(command, compilePatterns(list)) returns
MatchCommand ==
  /\ applied.fn = "matchesAny"
  /\ ~applied.returned
  /\ applied' = [applied EXCEPT
                   !.returned = TRUE,
                   !.result = matchesAny(applied.input.command,
                                         compilePatterns(applied.input.list))]
  /\ UNCHANGED <<routerVars, queueVars>>

MatchNext == MatchCommand

SpecMatch == InitMatch /\ [][MatchNext]_vars

\* p occurs in c, in either case, with no word character next to it
WholeWordIn(p, c) ==
  \E i \in 1..(Len(c) - Len(p) + 1) :
    /\ ToLower(SubSeq(c, i, i + Len(p) - 1)) = ToLower(p)
    /\ i = 1 \/ ~IsWordCh(Ch(c, i - 1))
    /\ i + Len(p) > Len(c) \/ ~IsWordCh(Ch(c, i + Len(p)))

\* C17: matchesAny on one literal pattern is true exactly when the pattern
\* occurs in the command as a whole word, in either case, and it is false
\* on the empty list of patterns.
C17_WholeWordMatch ==
  (applied.fn = "matchesAny" /\ applied.returned) =>
    applied.result = (/\ applied.input.list # <<>>
                      /\ WholeWordIn(applied.input.list[1], applied.input.command))

\* the pattern begins and ends with a word character
WordEdged(p) == p # "" /\ IsWordCh(Ch(p, 1)) /\ IsWordCh(Ch(p, Len(p)))

\* C17, for the patterns that begin and end with a word character
C17_WordEdgedMatch ==
  (/\ applied.fn = "matchesAny" /\ applied.returned
   /\ applied.input.list # <<>> => WordEdged(applied.input.list[1])) =>
    applied.result = (/\ applied.input.list # <<>>
                      /\ WholeWordIn(applied.input.list[1], applied.input.command))

\* the pattern rm was matched in rm -rf /tmp/x
C17_Witness ==
  /\ applied.fn = "matchesAny"
  /\ applied.returned
  /\ applied.input = [command |-> "rm -rf /tmp/x", list |-> <<"rm">>]
  /\ applied.result = TRUE

(***************************************************************************)
(* The runner with the safe-directory policy: block patterns, and          *)
(* approval for the rm commands with a target outside the safe roots       *)
(***************************************************************************)

EndsWith(s, p) == Len(s) >= Len(p) /\ SubSeq(s, Len(s) - Len(p) + 1, Len(s)) = p

\* shellSplit(input) from character i on: out are the tokens so far, buf
\* the token being read, quote the open quote ("" for none)
RECURSIVE ShellSplitFrom(_, _, _, _, _, _)
ShellSplitFrom(input, i, out, buf, quote, escaped) ==
  LET flushed == IF buf = "" THEN out ELSE Append(out, buf)
      ch == Ch(input, i)
  IN IF i > Len(input) THEN flushed
     ELSE IF escaped THEN ShellSplitFrom(input, i + 1, out, buf \o ch, quote, FALSE)
     ELSE IF ch = "\\" /\ quote # "'"
       THEN ShellSplitFrom(input, i + 1, out, buf, quote, TRUE)
     ELSE IF quote # ""
       THEN IF ch = quote THEN ShellSplitFrom(input, i + 1, out, buf, "", FALSE)
            ELSE ShellSplitFrom(input, i + 1, out, buf \o ch, quote, FALSE)
     ELSE IF ch \in {"'", "\""} THEN ShellSplitFrom(input, i + 1, out, buf, ch, FALSE)
     ELSE IF IsWs(ch) THEN ShellSplitFrom(input, i + 1, flushed, "", "", FALSE)
     ELSE IF ch \in {"&", "|"} /\ i + 1 <= Len(input) /\ Ch(input, i + 1) = ch
       THEN ShellSplitFrom(input, i + 2, Append(flushed, ch \o ch), "", "", FALSE)
     ELSE IF ch \in {";", "|"}
       THEN ShellSplitFrom(input, i + 1, Append(flushed, ch), "", "", FALSE)
     ELSE ShellSplitFrom(input, i + 1, out, buf \o ch, "", FALSE)

shellSplit(input) == ShellSplitFrom(input, 1, <<>>, "", "", FALSE)

isOperator(token) == token \in {"&&", "||", ";", "|"}

isRm(token) == token = "rm" \/ EndsWith(token, "/rm")

\* the loops of extractRmTargetsFromTokens at token i: inRm holds inside
\* the inner loop, which reads the arguments of an rm up to an operator
RECURSIVE RmTargetsFrom(_, _, _, _, _)
RmTargetsFrom(tokens, i, inRm, afterDoubleDash, targets) ==
  IF i > Len(tokens) THEN targets
  ELSE IF ~inRm
    THEN RmTargetsFrom(tokens, i + 1, isRm(tokens[i]), FALSE, targets)
  ELSE IF isOperator(tokens[i])
    THEN RmTargetsFrom(tokens, i, FALSE, FALSE, targets)
  ELSE IF tokens[i] = "--"
    THEN RmTargetsFrom(tokens, i + 1, TRUE, TRUE, targets)
  ELSE IF afterDoubleDash \/ ~StartsWith(tokens[i], "-")
    THEN RmTargetsFrom(tokens, i + 1, TRUE, afterDoubleDash, Append(targets, tokens[i]))
  ELSE RmTargetsFrom(tokens, i + 1, TRUE, afterDoubleDash, targets)

extractRmTargetsFromTokens(tokens) == RmTargetsFrom(tokens, 1, FALSE, FALSE, <<>>)

RECURSIVE extractRmTargets(_)
extractRmTargets(command) ==
  LET tokens == shellSplit(command)
      direct == extractRmTargetsFromTokens(tokens)
      shells == {i \in 1..(Len(tokens) - 1) : tokens[i] \in {"-c", "-lc"} /\ tokens[i + 1] # ""}
  IN IF tokens = <<>> THEN <<>>
     ELSE IF direct # <<>> THEN direct
     ELSE IF shells # {} THEN extractRmTargets(tokens[MinOr0(shells) + 1])
     ELSE <<>>

\* process.env.HOME and process.cwd()
Home == "/home/u"
Cwd == PROJECT_ROOT

isAbsolute(p) == StartsWith(p, "/")

\* String.prototype.split("/")
RECURSIVE SplitPath(_)
SplitPath(s) ==
  LET at == MinOr0({i \in 1..Len(s) : Ch(s, i) = "/"})
  IN IF at = 0 THEN <<s>>
     ELSE <<SubSeq(s, 1, at - 1)>> \o SplitPath(SubSeq(s, at + 1, Len(s)))

\* the segments of a path without its "", "." and ".." segments
RECURSIVE Normalized(_, _)
Normalized(parts, acc) ==
  IF parts = <<>> THEN acc
  ELSE IF Head(parts) \in {"", "."} THEN Normalized(Tail(parts), acc)
  ELSE IF Head(parts) = ".."
    THEN Normalized(Tail(parts), IF acc = <<>> THEN <<>> ELSE SubSeq(acc, 1, Len(acc) - 1))
  ELSE Normalized(Tail(parts), Append(acc, Head(parts)))

\* the segments of path.resolve(p)
Segments(p) == Normalized(SplitPath(IF isAbsolute(p) THEN p ELSE Cwd \o "/" \o p), <<>>)

\* path.resolve(from, to)
PathResolve(from, to) ==
  "/" \o Join(Segments(IF isAbsolute(to) THEN to ELSE from \o "/" \o to), "/")

\* path.join(a, b)
PathJoin(a, b) ==
  IF isAbsolute(a \o "/" \o b) THEN "/" \o Join(Normalized(SplitPath(a \o "/" \o b), <<>>), "/")
  ELSE Join(Normalized(SplitPath(a \o "/" \o b), <<>>), "/")

RECURSIVE CommonPrefix(_, _)
CommonPrefix(a, b) ==
  IF a # <<>> /\ b # <<>> /\ Head(a) = Head(b) THEN 1 + CommonPrefix(Tail(a), Tail(b)) ELSE 0

\* path.relative(from, to)
PathRelative(from, to) ==
  LET f == Segments(from)
      t == Segments(to)
      k == CommonPrefix(f, t)
  IN Join([i \in 1..(Len(f) - k) |-> ".."] \o SubSeq(t, k + 1, Len(t)), "/")

isSubPath(candidate, base) ==
  LET rel == PathRelative(base, candidate)
  IN rel = "" \/ (~StartsWith(rel, "..") /\ ~isAbsolute(rel))

expandHome(input) ==
  IF input = "~" THEN Home
  ELSE IF StartsWith(input, "~/") \/ StartsWith(input, "~\\")
    THEN PathJoin(Home, SubSeq(input, 3, Len(input)))
  ELSE input

\* input.replace(/^['"]|['"]$/g, "")
normalizePath(input) ==
  LET head == IF input # "" /\ Ch(input, 1) \in {"'", "\""}
                THEN SubSeq(input, 2, Len(input)) ELSE input
  IN IF head # "" /\ Ch(head, Len(head)) \in {"'", "\""}
       THEN SubSeq(head, 1, Len(head) - 1) ELSE head

\* dirs are SAFE_DIRS and the directories of getSafeDirs()
getSafeRoots(workspaceDir, dirs) ==
  {normalizePath(expandHome(d)) : d \in dirs \cup {workspaceDir}} \ {""}

resolveTargetPath(target, workspaceDir) ==
  LET normalizedTarget == normalizePath(expandHome(target))
  IN IF isAbsolute(normalizedTarget) THEN PathResolve("/", normalizedTarget)
     ELSE PathResolve(workspaceDir, normalizedTarget)

\* the backtick is written @ here
Backtick == "@"

\* /[`$]/.test(target)
HasExpansion(target) == \E i \in 1..Len(target) : Ch(target, i) \in {Backtick, "$"}

isOutsideSafeRoots(target, workspaceDir, safeRoots) ==
  IF target = "" \/ target = "--" THEN FALSE
  ELSE IF HasExpansion(target) THEN TRUE
  ELSE ~\E root \in safeRoots : isSubPath(resolveTargetPath(target, workspaceDir), root)

deletesOutsideSafeDirs(command, workspaceDir, dirs) ==
  LET targets == extractRmTargets(command)
      safeRoots == getSafeRoots(workspaceDir, dirs)
  IN IF targets = <<>> THEN FALSE
     ELSE IF safeRoots = {} THEN FALSE
     ELSE \E i \in 1..Len(targets) : isOutsideSafeRoots(targets[i], workspaceDir, safeRoots)

\* evaluateCommandPolicy of this runner; block is CODEX_CMD_BLOCK
evaluateSafeDirPolicy(commands, workspaceDir, block, dirs) ==
  LET blockedCommands == FilterMatching(commands, compilePatterns(block))
      needsApproval == \E i \in 1..Len(commands) :
                         deletesOutsideSafeDirs(commands[i], workspaceDir, dirs)
  IN [blocked |-> blockedCommands # <<>>, blockedCommands |-> blockedCommands,
      needsApproval |-> needsApproval,
      autoExecute |-> Len(commands) > 0 /\ ~needsApproval]

\* computeApprovalDecision of this runner
safeDirApprovalDecision(policy) == IF policy.blocked THEN TRUE ELSE policy.needsApproval

BlockList == <<"mkfs", "dd">>

SafeDirLists == {{"/work"}, {"/work/proj"}, {"~/safe"}}

Workspaces == {"/work/proj", "/work"}

RmCommands ==
  {"rm /work/proj/a.txt", "rm /etc/passwd", "rm $(cat f)", "rm -rf ~/safe/x", "rm -rf ~",
   "rm a.txt", "rm ../../etc/passwd", "rm ..cache", "ls /etc", "sudo rm -- -f /etc/x",
   "bash -c \"rm /etc/passwd\"", "rm /work2/a", "rm '/work/proj/b c'",
   "rm a.txt && rm /etc/b", "rm @pwd@/a", "echo hi; /bin/rm /etc/x",
   "dd if=/dev/zero of=/dev/sda", "rm -rf /work/proj/../..", "rm", "(rm /etc/passwd)"}

InitSafeDir ==
  /\ Constructed
  /\ config = DefaultConfig
  /\ traffic = ApprovalTraffic
  /\ applied \in {Given("evaluateCommandPolicy",
                        [command |-> c, workspaceDir |-> w, dirs |-> d]) :
                    c \in RmCommands, w \in Workspaces, d \in SafeDirLists}

\* evaluateCommandPolicy([command], workspaceDir) returns
EvaluateCommand ==
  /\ applied.fn = "evaluateCommandPolicy"
  /\ ~applied.returned
  /\ applied' = [applied EXCEPT
                   !.returned = TRUE,
                   !.result = evaluateSafeDirPolicy(<<applied.input.command>>,
                                                    applied.input.workspaceDir,
                                                    BlockList, applied.input.dirs)]
  /\ UNCHANGED <<routerVars, queueVars>>

SafeDirNext == EvaluateCommand

SpecSafeDir == InitSafeDir /\ [][SafeDirNext]_vars

\* a is b or a directory above b: the segments of a begin the segments of b
EqualOrAbove(a, b) ==
  Len(Segments(a)) <= Len(Segments(b))
    /\ SubSeq(Segments(b), 1, Len(Segments(a))) = Segments(a)

\* the target of an rm is in no safe root, or is written with $ or a backtick
TargetNeedsApproval(target, workspaceDir, dirs) ==
  \/ HasExpansion(target)
  \/ \A root \in getSafeRoots(workspaceDir, dirs) :
       ~EqualOrAbove(root, resolveTargetPath(target, workspaceDir))

\* C18: under the safe-directory policy a command requires approval exactly
\* when one of its rm targets resolves to a path that is neither a safe root
\* nor below one, or is written with $ or a backtick; and a command that
\* requires no approval and is not blocked is executed without confirmation.
C18_ApprovalIffOutside ==
  (applied.fn = "evaluateCommandPolicy" /\ applied.returned) =>
    LET Holds(targets) ==
          /\ applied.result.needsApproval =
               (\E i \in 1..Len(targets) :
                  TargetNeedsApproval(targets[i], applied.input.workspaceDir,
                                      applied.input.dirs))
          /\ (~applied.result.needsApproval /\ ~applied.result.blocked) =>
               (applied.result.autoExecute /\ ~safeDirApprovalDecision(applied.result))
    IN Holds(extractRmTargets(applied.input.command))

\* C18, the direction that holds: a command with an rm target that is
\* outside every safe root, or written with $ or a backtick, requires
\* approval and is not executed at once.
C18_OutsideNeedsApproval ==
  (applied.fn = "evaluateCommandPolicy" /\ applied.returned) =>
    LET Holds(targets) ==
          (\E i \in 1..Len(targets) :
             TargetNeedsApproval(targets[i], applied.input.workspaceDir, applied.input.dirs))
            => (applied.result.needsApproval /\ ~applied.result.autoExecute)
    IN Holds(extractRmTargets(applied.input.command))

\* rm $(cat f) required approval with the workspace as a safe root
C18_Witness ==
  /\ applied.fn = "evaluateCommandPolicy"
  /\ applied.returned
  /\ applied.input.command = "rm $(cat f)"
  /\ applied.result.needsApproval

\* an agent process of the step was still open at the timeout
TimedOutRuns == {i \in 1..Len(last.invs) : last.invs[i].error = TimeoutError}

\* C19: an agent process that has not closed at the timeout is killed with
\* SIGKILL and its run fails; it is the last run of the turn, and the
\* handling ends with the generic failure reply: no message of the turn
\* carries the text of the error and nothing is relayed.
C19_TimeoutGivesGenericFailure ==
  (last.chatId # "" /\ TimedOutRuns # {}) =>
    /\ TimedOutRuns = {Len(last.invs)}
    /\ last.invs[Len(last.invs)].signal = "SIGKILL"
    /\ ~last.invs[Len(last.invs)].ok
    /\ last.sent # <<>>
    /\ LastSent = Send(last.chatId, "failed", "")
    /\ \A i \in 1..Len(last.sent) :
         last.sent[i].text # TimeoutError /\ last.sent[i].kind # "relay"

\* the execute run of a confirmed approval timed out
C19_Witness ==
  /\ last.pendingId # 0
  /\ Len(last.invs) = 1
  /\ last.invs[1].mode = "execute"
  /\ last.invs[1].error = TimeoutError
  /\ last.invs[1].signal = "SIGKILL"
  /\ LastSent = Send(last.chatId, "failed", "")

(***************************************************************************)
(* index.ts and router.ts: the queue with handleInbound as its handler     *)
(***************************************************************************)

\* one chat that asks the agent for work
ServeTraffic ==
  [c \in Chats |-> IF IsGroup(c) THEN {}
              ELSE {"/codex", "list the files", "yes", "/confirm --last"}]

InitServe ==
  /\ Constructed
  /\ config \in Configs
  /\ traffic = ServeTraffic
  /\ applied = NotApplied

\* rtm.on("message") for a chat that sends messages
Arrives(chatId) ==
  /\ TextsOf(chatId) # {}
  /\ Enqueue(chatId)

\* the handler started by processNext runs handleInbound to its end on the
\* message it was given, and settles: the catch block of processNext takes a
\* rejection, and its finally block calls setImmediate
Serve(chatId) ==
  /\ inFlight[chatId] > 0
  /\ \E text \in TextsOf(chatId) :
       LET msg == [chatId |-> chatId, text |-> text, isGroup |-> IsGroup(chatId),
                   isMentioned |-> FALSE]
       IN \E done \in Handlings(msg, <<>>) : Handled(msg, done)
  /\ inFlight' = [inFlight EXCEPT ![chatId] = @ - 1]
  /\ immediates' = [immediates EXCEPT ![chatId] = @ + 1]
  /\ UNCHANGED <<config, memo, traffic, queues, processing, handled, enqueued, ipc,
                  agents, applied>>

ServeNext ==
  \E chatId \in Chats :
    \/ Arrives(chatId)
    \/ Serve(chatId)
    \/ RunImmediate(chatId)

SpecServe == InitServe /\ [][ServeNext]_vars

\* the handling that ends in this step started an agent process that failed
FailedServe ==
  /\ last'.chatId # ""
  /\ inFlight'[last'.chatId] = inFlight[last'.chatId] - 1
  /\ \E i \in 1..Len(last'.invs) : ~last'.invs[i].ok

\* C20: when an agent process started by the handling of a message fails
\* (proposal or execute; turn, confirmed approval or /confirm --last), the
\* error stays in the router: handleInbound does not reject, the failed run
\* is the last run of the handling, the last message sent is the generic
\* failure reply and nothing is relayed; and the queue of the chat goes on:
\* the call of processNext for the next message is scheduled.
C20_AgentFailureCaught ==
  [][FailedServe =>
       /\ ~last'.rejected
       /\ \A i \in 1..Len(last'.invs) : ~last'.invs[i].ok => i = Len(last'.invs)
       /\ last'.sent # <<>>
       /\ last'.sent[Len(last'.sent)] = Send(last'.chatId, "failed", "")
       /\ \A i \in 1..Len(last'.sent) : last'.sent[i].kind # "relay"
       /\ immediates'[last'.chatId] = immediates[last'.chatId] + 1
       /\ last'.chatId \in processing']_vars

\* the proposal run of a turn failed, the failure reply was sent, and the
\* next message of the chat has been given to the handler
C20_Witness ==
  /\ Len(last.invs) = 1
  /\ ~last.invs[1].ok
  /\ last.invs[1].mode = "proposal"
  /\ LastSent = Send(last.chatId, "failed", "")
  /\ Len(handled[last.chatId]) = 3
  /\ inFlight[last.chatId] = 1


\* ---------------------------------------------------------------------
\* The argument vector of the agent process
\* ---------------------------------------------------------------------

\* the two files of the repository that hold runCodexCli
Runners == {"runner.ts", "part_001"}

OutputFile(workspaceDir) == workspaceDir \o "/.codex_last_message.txt"

\* the sandbox a proposal run is given: "-s read-only" in runner.ts (71),
\* "-s workspace-write" in the safe-directory runner (part_001 71)
ProposalSandbox(runner) ==
  IF runner = "part_001" THEN "workspace-write" ELSE "read-only"

\* args of runCodexCli, in the order they are pushed
CliArgs(runner, workspaceDir, mode, modelOverride, resumeSessionId) ==
  <<"exec", "--skip-git-repo-check", "-C", workspaceDir,
    "--color", "never", "-o", OutputFile(workspaceDir)>>
  \o (IF modelOverride # "" THEN <<"-m", modelOverride>> ELSE <<>>)
  \o (IF mode = "proposal"
        THEN <<"-s", ProposalSandbox(runner)>>
        ELSE <<"--full-auto">>)
  \o (IF resumeSessionId # "" THEN <<"resume", resumeSessionId>> ELSE <<>>)

CliWorkspaces == {"/app/workspace", "/tmp/w", "/work"}
CliModels == {"", "m1", "m2"}
CliSessions == {"", "s1", "s2"}

InitCliArgs ==
  /\ Constructed
  /\ config = DefaultConfig
  /\ traffic = ApprovalTraffic
  /\ applied \in {Given("runCodexCli",
                        [runner |-> r, workspaceDir |-> w, mode |-> m,
                         modelOverride |-> mo, resumeSessionId |-> sid]) :
                    r \in Runners, w \in CliWorkspaces,
                    m \in {"proposal", "execute"},
                    mo \in CliModels, sid \in CliSessions}

\* runCodexCli builds the arguments and spawns the process with them
SpawnCli ==
  /\ applied.fn = "runCodexCli"
  /\ ~applied.returned
  /\ applied' = [applied EXCEPT
                   !.returned = TRUE,
                   !.result = CliArgs(applied.input.runner,
                                      applied.input.workspaceDir,
                                      applied.input.mode,
                                      applied.input.modelOverride,
                                      applied.input.resumeSessionId)]
  /\ UNCHANGED <<routerVars, queueVars>>

CliArgsNext == SpawnCli

SpecCliArgs == InitCliArgs /\ [][CliArgsNext]_vars

Has(args, flag) == \E i \in 1..Len(args) : args[i] = flag

HasPair(args, flag, value) ==
  \E i \in 1..(Len(args) - 1) : args[i] = flag /\ args[i + 1] = value

\* the process may write: it has --full-auto or -s workspace-write
WriteCapable(args) ==
  Has(args, "--full-auto") \/ HasPair(args, "-s", "workspace-write")

Spawned == applied.fn = "runCodexCli" /\ applied.returned

\* C21: every proposal-mode invocation starts the agent with read-only
\* capability, and a write-capable invocation (full-auto or
\* workspace-write) is started in execute mode only.
C21_ProposalReadOnly ==
  Spawned =>
    /\ applied.input.mode = "proposal" =>
         /\ HasPair(applied.result, "-s", "read-only")
         /\ ~WriteCapable(applied.result)
    /\ WriteCapable(applied.result) => applied.input.mode = "execute"

\* C21, for runCodexCli of runner.ts alone the statement holds
C21_ProposalReadOnlyInRunnerTs ==
  (Spawned /\ applied.input.runner = "runner.ts") =>
    /\ applied.input.mode = "proposal" =>
         /\ HasPair(applied.result, "-s", "read-only")
         /\ ~WriteCapable(applied.result)
    /\ WriteCapable(applied.result) => applied.input.mode = "execute"

\* C21, in the router over runner.ts: a write-capable run is an execute run,
\* and within one step no proposal run follows an execute run
C21_WriteAfterDecision ==
  /\ \A i \in 1..Len(last.invs) :
       /\ last.invs[i].mode = "proposal" => last.invs[i].sandbox = "read-only"
       /\ last.invs[i].sandbox # "read-only" => last.invs[i].mode = "execute"
  /\ \A i \in 1..Len(last.invs) : \A j \in 1..Len(last.invs) :
       (last.invs[i].mode = "execute" /\ last.invs[j].mode = "proposal")
         => j < i

C21_Witness ==
  /\ Spawned
  /\ applied.input.runner = "part_001"
  /\ applied.input.mode = "proposal"
  /\ WriteCapable(applied.result)


\* ---------------------------------------------------------------------
\* Commands of the codex plugin outside the codex plugin
\* ---------------------------------------------------------------------

\* every command of the codex plugin, sent from inside and from outside it
GuardTraffic ==
  [c \in Chats |->
     IF IsGroup(c) THEN {"/status"}
     ELSE {"/codex", "/exit", "/plugin use market", "/plugin sandbox market off",
           "/cli --write", "/cli --safe", "/backend", "/dir set /tmp/w", "/mode",
           "/model set m1", "/resume s1", "/status", "/git status",
           "/confirm", "/cancel", "/restart"}]

InitGuard ==
  /\ Constructed
  /\ config \in Configs
  /\ traffic = GuardTraffic
  /\ applied = NotApplied

GuardNext == Inbound

SpecGuard == InitGuard /\ [][GuardNext]_vars

\* the commands the statement names
GuardedNames ==
  {"cli", "backend", "dir", "mode", "model", "resume", "status", "git",
   "confirm", "cancel", "restart"}

\* the step handles one of these commands in a conversation whose active
\* plugin is not codex
GuardedOutsideCodex ==
  /\ last'.chatId # ""
  /\ plugin[getOrCreateConversation(last'.chatId)] # "codex"
  /\ parseCommand(normalizeContinue(last'.text)).found
  /\ parseCommand(normalizeContinue(last'.text)).name \in GuardedNames

\* the guidance message is the only message, no process is started and the
\* store stays as it is
OnlyGuidance ==
  /\ last'.sent = <<Send(last'.chatId, "notInCodex", "")>>
  /\ last'.invs = <<>>
  /\ UNCHANGED storeVars

\* C22, as stated: outside the codex plugin each of the commands cli,
\* backend, dir, mode, model, resume, status, git, confirm, cancel and
\* restart is answered with the guidance message and changes nothing.
C22_GuardedAlways ==
  [][GuardedOutsideCodex => OnlyGuidance]_vars

\* C22: outside the codex plugin, with no approval pending in the
\* conversation and the message not an unmentioned group message, each of
\* the commands cli, backend, dir, mode, model, resume, status, git,
\* confirm, cancel and restart is answered with the guidance message only:
\* no process is started and backend, write mode, workspace, model and the
\* rest of the store stay as they were.
C22_GuardedAtDispatch ==
  [][(/\ GuardedOutsideCodex
      /\ ~PendingExists(getOrCreateConversation(last'.chatId))
      /\ ~UnmentionedStep) => OnlyGuidance]_vars

\* /cli --write was refused in a conversation that has left the codex plugin
\* with write mode on for the plugin named market
C22_Witness ==
  /\ last.text = "/cli --write"
  /\ plugin[LastConversation] = Builtin
  /\ last.sent = <<Send(last.chatId, "notInCodex", "")>>
  /\ last.pendingId = 0


\* ---------------------------------------------------------------------
\* The workspace directory and the allowed directories
\* ---------------------------------------------------------------------

DirTraffic ==
  [c \in Chats |->
     IF IsGroup(c) THEN {}
     ELSE {"/codex", "list the files", "no", "/dir set /safe/w",
           "/dir set /safe2", "/dir set /tmp/w"}]

InitDirs ==
  /\ Constructed
  /\ config \in {DefaultConfig, SafeRootConfig, SiblingConfig, OpenConfig}
  /\ traffic = DirTraffic
  /\ applied = NotApplied

DirsNext == Inbound

SpecDirs == InitDirs /\ [][DirsNext]_vars

\* target is one of dirs or lies under one of them, segment by segment
EqualOrUnder(target, dirs) == \E root \in dirs : EqualOrAbove(root, target)

\* the step handles a message that is not a command, in the codex plugin,
\* with no approval pending
TurnStep ==
  /\ last'.chatId # ""
  /\ plugin[getOrCreateConversation(last'.chatId)] = "codex"
  /\ ~parseCommand(normalizeContinue(last'.text)).found
  /\ ~PendingExists(getOrCreateConversation(last'.chatId))
  /\ ~UnmentionedStep

\* the workspace directory the step resolves is outside a non-empty list of
\* allowed directories
WorkspaceOutside ==
  /\ getAllowedDirs(Store, config) # {}
  /\ ~EqualOrUnder(WorkspaceDirOf(Store, getOrCreateConversation(last'.chatId)),
                   getAllowedDirs(Store, config))

\* C23: a message of the codex plugin that is not a command, in a
\* conversation whose workspace directory is neither one of a non-empty list
\* of allowed directories nor under one, is answered with the remediation
\* message only: the user turn is not saved and no agent process is started.
\* A directory whose path only begins with the path of an allowed directory
\* is not accepted.
C23_OutsideWorkspaceRefused ==
  [][(TurnStep /\ WorkspaceOutside) =>
       /\ last'.sent = <<Send(last'.chatId, "dirNotAllowed", "")>>
       /\ last'.invs = <<>>
       /\ history' = history
       /\ approvals' = approvals]_vars

\* the turn of chat c1 was refused: its default workspace is a sibling of the
\* allowed directory and begins with its path
C23_Witness ==
  /\ config = SiblingConfig
  /\ last.text = "list the files"
  /\ plugin[LastConversation] = "codex"
  /\ StartsWith(workspace[LastConversation], DATA_DIR \o "/workspaces/c")
  /\ last.sent = <<Send(last.chatId, "dirNotAllowed", "")>>
  /\ history[LastConversation] = <<>>


\* the step handles /dir set <path> in the codex plugin with no approval
\* pending; the paths of the traffic are absolute and have no blank
DirSetStep ==
  /\ last'.chatId # ""
  /\ plugin[getOrCreateConversation(last'.chatId)] = "codex"
  /\ ~PendingExists(getOrCreateConversation(last'.chatId))
  /\ ~UnmentionedStep
  /\ parseCommand(last'.text).found
  /\ parseCommand(last'.text).name = "dir"
  /\ Len(parseCommand(last'.text).args) = 2
  /\ parseCommand(last'.text).args[1] = "set"

DirSetPath == parseCommand(last'.text).args[2]

\* C24: /dir set <path> is restricted by the safe directories: with a
\* non-empty list of allowed directories and a path that is neither one of
\* the directories allowed before the command nor under one, the command is
\* rejected, and the workspace directory of the conversation and the set of
\* allowed directories stay as they were.
C24_DirSetRestricted ==
  [][(/\ DirSetStep
      /\ getAllowedDirs(Store, config) # {}
      /\ ~EqualOrUnder(DirSetPath, getAllowedDirs(Store, config))) =>
       /\ last'.sent = <<Send(last'.chatId, "dirRejected", "")>>
       /\ WorkspaceDirOf([Store EXCEPT !.workspace = workspace'],
                         getOrCreateConversation(last'.chatId))
            = WorkspaceDirOf(Store, getOrCreateConversation(last'.chatId))
       /\ safeDirs' = safeDirs]_vars

\* C24, what the router does: /dir set adds the path to the allowed
\* directories of the store before it tests the path, so the command is never
\* rejected and the path is the workspace directory and an allowed directory
\* afterwards
C24_DirSetExtendsAllowed ==
  [][DirSetStep =>
       /\ last'.sent = <<Send(last'.chatId, "dirSet", DirSetPath)>>
       /\ workspace'[getOrCreateConversation(last'.chatId)] = DirSetPath
       /\ safeDirs' = safeDirs \cup {DirSetPath}]_vars

\* a directory outside SAFE_DIRS=/safe has become the workspace directory
C24_Witness ==
  /\ config = SafeRootConfig
  /\ last.text = "/dir set /tmp/w"
  /\ workspace[LastConversation] = "/tmp/w"
  /\ "/tmp/w" \in safeDirs


\* ---------------------------------------------------------------------
\* CLI sessions: /reset --hard
\* ---------------------------------------------------------------------

\* two conversations that can share the workspace directory of chat c1,
\* with an agent that prints its session id
SessionTraffic ==
  [c \in Chats |->
     IF IsGroup(c)
       THEN {"/codex", "list the files", "/dir set /app/data/workspaces/c1"}
     ELSE {"/codex", "list the files", "/reset --hard", "/resume s2-b"}]

InitSession ==
  /\ Constructed
  /\ config = SessionConfig
  /\ traffic = SessionTraffic
  /\ applied = NotApplied

SessionNext == Inbound

SpecSession == InitSession /\ [][SessionNext]_vars

\* the workspace directories of the traffic
SessionDirs == {DATA_DIR \o "/workspaces/c1", DATA_DIR \o "/workspaces/g1"}

\* the directory W has no session id, and neither has the conversation while
\* W is its workspace directory: a run of the conversation in W would be
\* given no resume directive
Fresh(conversationId, W) ==
  /\ getCliSessionIdForWorkspace(Store, W) = ""
  /\ WorkspaceDirOf(Store, conversationId) = W
       => getConversationCliSessionId(Store, conversationId) = ""

\* the step carries out /reset --hard
HardResetStep ==
  /\ last'.chatId # ""
  /\ last'.sent = <<Send(last'.chatId, "reset", "hard")>>

\* the step binds sessions anew: it carries out /resume, or it runs the agent
\* in the directory W
Rebinds(W) ==
  \/ /\ last'.sent # <<>>
     /\ last'.sent[1].kind \in {"resumed", "dirNotAllowed"}
     /\ parseCommand(last'.text).name = "resume"
  \/ \E i \in 1..Len(last'.invs) : last'.invs[i].workspaceDir = W

\* C25, the reset: /reset --hard clears the session id of the conversation,
\* the session id of its workspace directory and the directory recorded for
\* that id.
HardResetClears ==
  HardResetStep =>
    LET c == getOrCreateConversation(last'.chatId)
        W == WorkspaceDirOf(Store, c)
        id == getCliSessionIdForWorkspace(Store, W)
    IN /\ Lookup(sessions'.conv, c) = ""
       /\ Lookup(sessions'.ws, W) = ""
       /\ id # "" => Lookup(sessions'.wsOf, id) = ""
       /\ workspace'[c] = W

\* C25, in between: a step that is neither a /resume nor a run of the agent
\* in W leaves W and the conversation without a session id
FreshKept ==
  \A c \in Chats : \A W \in SessionDirs :
    (Fresh(c, W) /\ ~Rebinds(W)) => Fresh(c, W)'

\* C25, the next run: the first process a conversation starts in a directory
\* that is fresh for it is given no resume directive
FreshRunNotResumed ==
  (last'.chatId # "" /\ last'.invs # <<>>) =>
    (Fresh(getOrCreateConversation(last'.chatId), last'.invs[1].workspaceDir)
       => last'.resumes[1] = "")

\* C25: after /reset --hard in a conversation the session id of the
\* conversation, the session id of its workspace directory and the reverse
\* mapping of that id are cleared, and the next agent run of the conversation
\* in that directory is started without a resume directive, as long as no
\* /resume and no run in that directory binds it again in between.
C25_HardResetStartsFresh ==
  [][HardResetClears /\ FreshKept /\ FreshRunNotResumed]_vars

\* a run of chat c1 in its directory was started without a resume directive
\* and printed no id; the directory has no session id although the id s1 is
\* still recorded for it: its binding was cleared by a hard reset
C25_Witness ==
  /\ last.chatId = "c1"
  /\ last.text = "list the files"
  /\ last.invs # <<>>
  /\ last.invs[1].ok
  /\ last.resumes[1] = ""
  /\ memo.session[last.invs[1].raw] = ""
  /\ Lookup(sessions.wsOf, "s1") = last.invs[1].workspaceDir
  /\ Lookup(sessions.ws, last.invs[1].workspaceDir) = ""


\* ---------------------------------------------------------------------
\* Write mode
\* ---------------------------------------------------------------------

\* the step is a turn of a conversation that is in write mode
WriteModeStep ==
  /\ TurnStep
  /\ writeMode[getOrCreateConversation(last'.chatId)]
  /\ ~confirmNext[getOrCreateConversation(last'.chatId)]

\* the proposal run p of the step was parsed and no command of it is blocked
ParsedUnblocked(p) ==
  /\ p.mode = "proposal"
  /\ p.ok
  /\ memo.parse[p.output].parsed
  /\ ~memo.policy[memo.parse[p.output].commands, config].blocked

\* C26: with write mode on, a message of the codex plugin that is not a
\* command creates no approval record and sends no approval prompt; when its
\* proposal is parsed and not blocked (whether or not it needs approval) the
\* proposal run is followed by exactly one execute run, and the text of that
\* run is what is relayed.
C26_WriteModeExecutes ==
  [][WriteModeStep =>
       /\ approvals' = approvals
       /\ \A i \in 1..Len(last'.sent) : last'.sent[i].kind # "approvalPrompt"
       /\ \A i \in 1..Len(last'.invs) :
            last'.invs[i].mode = "execute" => i = 2
       /\ (last'.invs # <<>> /\ ParsedUnblocked(last'.invs[1])) =>
            /\ Len(last'.invs) = 2
            /\ last'.invs[2].mode = "execute"
            /\ last'.invs[2].request = last'.invs[1].request
            /\ last'.invs[2].ok =>
                 last'.sent[Len(last'.sent)]
                   = Send(last'.chatId, "relay", ExecuteText(last'.invs[2]))]_vars

\* a proposal that asks for approval was executed in write mode, and the text
\* of the execution is the reply
C26_Witness ==
  /\ last.text = "list the files"
  /\ last.writeMode
  /\ last.pendingId = 0
  /\ Len(last.invs) = 2
  /\ memo.parse[last.invs[1].output].needsApproval
  /\ last.invs[2].mode = "execute"
  /\ last.invs[2].ok
  /\ LastSent = Send(last.chatId, "relay", ExecuteText(last.invs[2]))
  /\ approvals = <<>>


\* C26, the switch: write mode is turned on by /cli --write only and turned
\* off by /cli --safe and /cancel only
C26_WriteModeSwitches ==
  [][\A c \in Chats :
       /\ (~writeMode[c] /\ writeMode'[c]) =>
            (last'.chatId = c /\ last'.text = "/cli --write")
       /\ (writeMode[c] /\ ~writeMode'[c]) =>
            (last'.chatId = c /\ last'.text \in {"/cli --safe", "/cancel"})]_vars


\* ---------------------------------------------------------------------
\* The plugin manager: runtime mode, sandbox and their approvals
\* ---------------------------------------------------------------------

PluginTraffic ==
  [c \in Chats |->
     IF IsGroup(c) THEN {}
     ELSE {"/plugin use market", "hello", "yes", "no",
           "/plugin runtime market embed", "/plugin runtime market isolate",
           "/plugin sandbox market off", "/plugin sandbox market on",
           "/plugin approve market", "/plugin install /srv/market",
           "/plugin disable market", "/plugin enable market",
           "/plugin uninstall market"}]

InitPlugins ==
  /\ Constructed
  /\ config = DefaultConfig
  /\ traffic = PluginTraffic
  /\ applied = NotApplied

PluginsNext == Inbound

SpecPlugins == InitPlugins /\ [][PluginsNext]_vars

\* a runtime that runs is the runtime of an installed plugin; it is in embed
\* mode only with approvedEmbed, and has its sandbox off only in isolate mode
\* and with approvedSandboxOff
RuntimeApproved ==
  \A n \in DOMAIN runtimes :
    runtimes[n].loaded =>
      /\ n \in DOMAIN registry
      /\ runtimes[n].mode = "embed" => registry[n].approvedEmbed
      /\ runtimes[n].sandbox = "off" =>
           (runtimes[n].mode = "isolate" /\ registry[n].approvedSandboxOff)

\* the step confirms the pending approval of a plugin action
ConfirmsPluginApproval(action) ==
  /\ last'.pendingId # 0
  /\ approvals[last'.pendingId].status = "pending"
  /\ approvals'[last'.pendingId].status = "approved"
  /\ approvals[last'.pendingId].payload.type = "plugin"
  /\ approvals[last'.pendingId].payload.action = action

\* the flag of n is set by the step
Granted(n, flag) ==
  /\ n \in DOMAIN registry'
  /\ registry'[n][flag]
  /\ n \in DOMAIN registry => ~registry[n][flag]

\* approvedEmbed becomes true by /plugin approve <name> or by the confirmation
\* of the approval that /plugin runtime <name> embed created, approvedSandboxOff
\* by the confirmation of the approval that /plugin sandbox <name> off created
GrantedByApproval ==
  \A n \in {Builtin} :
    /\ Granted(n, "approvedEmbed") =>
         \/ last'.text = "/plugin approve " \o n
         \/ ConfirmsPluginApproval("embed")
    /\ Granted(n, "approvedSandboxOff") => ConfirmsPluginApproval("sandbox_off")

IsolateTraffic ==
  [c \in Chats |->
     IF IsGroup(c) THEN {}
     ELSE {"/plugin use market", "hello", "/p market ping", "/codex"}]

InitIsolate ==
  /\ Constructed
  /\ config = DefaultConfig
  /\ traffic = IsolateTraffic
  /\ applied = NotApplied

\* the requests that a handling sends to the worker of the plugin, in order:
\* stop sends deactivate to the runtime it replaces, start sends init and
\* activate to the runtime it creates, and handleEvent or handleCommand then
\* sends onEvent or onCommand; each is awaited before the next is sent
RequestsOf(st, done) ==
  LET before == st.runtimes[Builtin]
      after == done.st.runtimes[Builtin]
      stopped == IF before.loaded /\ before.mode = "isolate" /\ before # after
                   THEN <<"deactivate">> ELSE <<>>
      started == IF after.loaded /\ after.mode = "isolate" /\ before # after
                   THEN <<"init", "activate">> ELSE <<>>
      asked == IF done.event # "" /\ after.loaded /\ after.mode = "isolate"
                 THEN <<done.event>> ELSE <<>>
  IN stopped \o started \o asked

\* the finally block of processNext after the handler of the chat settled
Settles(chatId) ==
  /\ inFlight' = [inFlight EXCEPT ![chatId] = @ - 1]
  /\ immediates' = [immediates EXCEPT ![chatId] = @ + 1]

\* the handler started by processNext runs handleInbound up to the first
\* request it sends to the worker (IsolateRuntime.request: the request is put
\* in pending and posted), or to its end when it sends none
Dispatch(chatId) ==
  /\ inFlight[chatId] > 0
  /\ ipc.pending[chatId] = <<>>
  /\ \E text \in TextsOf(chatId) :
       LET msg == [chatId |-> chatId, text |-> text, isGroup |-> IsGroup(chatId),
                   isMentioned |-> FALSE]
       IN \E done \in Handlings(msg, <<>>) :
            /\ Handled(msg, done)
            /\ ipc' = [ipc EXCEPT !.pending[chatId] = RequestsOf(Store, done),
                                  !.caught[chatId] = (done.event = "onCommand")]
            /\ IF RequestsOf(Store, done) = <<>>
                 THEN Settles(chatId)
                 ELSE UNCHANGED <<inFlight, immediates>>
  /\ UNCHANGED <<config, memo, traffic, queues, processing, handled, enqueued, agents, applied>>

\* worker.on("message") with a response whose ok is true: the promise of the
\* request resolves, the handler sends its next request or runs to its end
Answers(chatId) ==
  /\ ipc.pending[chatId] # <<>>
  /\ ~ipc.crashed
  /\ ipc' = [ipc EXCEPT !.pending[chatId] = Tail(@)]
  /\ IF Tail(ipc.pending[chatId]) = <<>>
       THEN Settles(chatId)
       ELSE UNCHANGED <<inFlight, immediates>>
  /\ UNCHANGED <<routerVars, queues, processing, handled, enqueued, agents, applied>>

\* worker.on("message") with a response whose ok is false: the promise of the
\* request rejects; handlePluginDirect catches the error and answers, and the
\* error of a message given to handleEvent leaves handleInbound and is
\* caught by processNext
AnswersError(chatId) ==
  /\ ipc.pending[chatId] # <<>>
  /\ ~ipc.crashed
  /\ ipc' = [ipc EXCEPT !.pending[chatId] = <<>>]
  /\ last' = IF ipc.caught[chatId]
               THEN [last EXCEPT !.sent = Append(@, Send(chatId, "pluginCommandFailed", ""))]
               ELSE [last EXCEPT !.rejected = TRUE]
  /\ Settles(chatId)
  /\ UNCHANGED <<config, memo, traffic, storeVars, queues, processing, handled,
                  enqueued, agents, applied>>

\* worker.on("error"): the error of the worker is logged
Crashes ==
  /\ runtimes[Builtin].loaded
  /\ runtimes[Builtin].mode = "isolate"
  /\ ~ipc.crashed
  /\ ipc' = [ipc EXCEPT !.crashed = TRUE]
  /\ UNCHANGED <<routerVars, queues, processing, inFlight, immediates, handled,
                  enqueued, agents, applied>>

IsolateNext ==
  \/ \E chatId \in Chats :
       \/ Arrives(chatId)
       \/ Dispatch(chatId)
       \/ Answers(chatId)
       \/ AnswersError(chatId)
       \/ RunImmediate(chatId)
  \/ Crashes

\* the steps of the host are taken when they can be; the worker answers or
\* not, as it likes
SpecIsolate ==
  /\ InitIsolate
  /\ [][IsolateNext]_vars
  /\ \A chatId \in Chats :
       WF_vars(Dispatch(chatId)) /\ WF_vars(RunImmediate(chatId))

OnlyAnswersEnd ==
  \A c \in Chats :
    (ipc.pending[c] # <<>> /\ ipc.pending'[c] # ipc.pending[c]) =>
      /\ ~ipc.crashed
      /\ \/ ipc.pending'[c] = Tail(ipc.pending[c])
         \/ ipc.pending'[c] = <<>>

\* while the handler of a chat waits for an answer the chat stays in
\* processing and no other message of the chat is given to the handler
WaitingBlocksChat ==
  \A c \in Chats :
    ipc.pending[c] # <<>> =>
      /\ c \in processing
      /\ inFlight[c] = 1
      /\ immediates[c] = 0
      /\ handled'[c] = handled[c] \/ ipc.pending'[c] = <<>>

\* what the code does with a request: nothing but an answer of the worker
\* ends it, and the chat is held meanwhile
C28_RequestWaitsForAnswer == [][OnlyAnswersEnd /\ WaitingBlocksChat]_vars

\* the worker crashed with a request pending and a later message of the chat
\* waiting in the queue
C28_Stuck ==
  /\ ipc.crashed
  /\ ipc.pending["c1"] # <<>>
  /\ queues["c1"] # <<>>


\* ---------------------------------------------------------------------
\* index.ts: the order in which the messages of a chat are handled
\* ---------------------------------------------------------------------

\* the messages of a chat are named 1, 2, ... as they are enqueued: the k-th
\* message given to the handler is the k-th message enqueued
HandledInOrder ==
  \A c \in Chats :
    /\ Len(handled[c]) <= enqueued[c]
    /\ \A k \in 1..Len(handled[c]) : handled[c][k] = k

\* a step that gives a message of a chat to the handler gives it the next
\* message in order, and no handler of the chat is unsettled when it does
StartsAfterSettled ==
  \A c \in Chats :
    handled'[c] # handled[c] =>
      /\ inFlight[c] = 0
      /\ inFlight'[c] = 1
      /\ handled'[c] = Append(handled[c], Len(handled[c]) + 1)

DecisionCommands ==
  {<<>>, <<"ls">>, <<"cat a">>, <<"ls", "ls -l">>, <<"rm /etc/x">>, <<"dd if=a of=b">>,
   <<"ls", "rm /work/a">>}

DecisionProposals ==
  [needsApproval : BOOLEAN, files : {<<>>, <<"a.txt">>}, commands : DecisionCommands]

DecisionWorkspace == "/work"

InitDecision ==
  /\ Constructed
  /\ config = DefaultConfig
  /\ traffic = ApprovalTraffic
  /\ applied \in {Given("computeApprovalDecision",
                        [runner |-> r, cfg |-> cfg, parsed |-> P]) :
                    r \in Runners, cfg \in Configs, P \in DecisionProposals}

\* the policy that runCodexCli gives to computeApprovalDecision: the result
\* of the evaluateCommandPolicy of the runner on the commands of the proposal
PolicyOf(runner, cfg, parsed) ==
  IF runner = "part_001"
    THEN evaluateSafeDirPolicy(parsed.commands, DecisionWorkspace, cfg.block,
                               cfg.safeDirs)
    ELSE evaluateCommandPolicy(parsed.commands, cfg)

\* computeApprovalDecision(parsed, policy) of the runner returns
Decide ==
  /\ applied.fn = "computeApprovalDecision"
  /\ ~applied.returned
  /\ LET policy == PolicyOf(applied.input.runner, applied.input.cfg,
                            applied.input.parsed)
     IN applied' = [applied EXCEPT
                      !.returned = TRUE,
                      !.result =
                        [policy |-> policy,
                         decision |->
                           IF applied.input.runner = "part_001"
                             THEN safeDirApprovalDecision(policy)
                             ELSE computeApprovalDecision(applied.input.parsed,
                                                          policy)]]
  /\ UNCHANGED <<routerVars, queueVars>>

DecisionNext == Decide

SpecDecision == InitDecision /\ [][DecisionNext]_vars

Decided == applied.fn = "computeApprovalDecision" /\ applied.returned

\* the decision as the statement gives it
StatedDecision(parsed, policy) ==
  \/ policy.blocked
  \/ /\ ~policy.autoExecute
     /\ \/ parsed.needsApproval
        \/ policy.needsApproval
        \/ Len(parsed.files) > 0

C30_DecisionAsStatedInRunnerTs ==
  (Decided /\ applied.input.runner = "runner.ts") =>
    /\ applied.result.decision = StatedDecision(applied.input.parsed, applied.result.policy)
    /\ (applied.result.policy.autoExecute /\ ~applied.result.policy.blocked)
         => ~applied.result.decision

\* in both runners a blocked policy gives true, and a policy with autoExecute
\* and nothing blocked gives false
C30_BlockedAndAutoExecute ==
  Decided =>
    /\ applied.result.policy.blocked => applied.result.decision
    /\ (applied.result.policy.autoExecute /\ ~applied.result.policy.blocked)
         => ~applied.result.decision

\* runner.ts: the commands are all allowed, the agent asked for approval and
\* lists a file, and the decision is false
C30_Witness ==
  /\ Decided
  /\ applied.input.runner = "runner.ts"
  /\ applied.result.policy.autoExecute
  /\ ~applied.result.policy.blocked
  /\ applied.input.parsed.needsApproval
  /\ applied.input.parsed.files # <<>>
  /\ ~applied.result.decision

\* the safe-directory runner: no command, the agent asked for approval and
\* lists a file, and the decision is false
C30_FilesIgnored ==
  /\ Decided
  /\ applied.input.runner = "part_001"
  /\ applied.input.parsed.commands = <<>>
  /\ applied.input.parsed.needsApproval
  /\ applied.input.parsed.files # <<>>
  /\ ~applied.result.policy.autoExecute
  /\ ~applied.result.decision


\* ---------------------------------------------------------------------
\* runner.ts: evaluateCommandPolicy on lists of commands, with block
\* patterns written as /pattern/flags
\* ---------------------------------------------------------------------

MaxPolicyCommands == 2

PolicyCommandItems == {"rm -rf a", "rm b", "ls", "sudo rm c"}

PolicyCommands == SeqsUpTo(PolicyCommandItems, MaxPolicyCommands)

PolicyBlockLists ==
  {<<"rm">>, <<"/rm/">>, <<"/rm/g">>, <<"/rm/y">>, <<"/RM/gi">>, <<"/ls/g", "/rm/g">>}

PolicyConfigs ==
  {[DefaultConfig EXCEPT !.block = b, !.confirm = c, !.allow = a] :
     b \in PolicyBlockLists, c \in {<<>>, <<"rm">>}, a \in {<<>>, <<"ls", "rm">>}}

InitPolicy ==
  /\ Constructed
  /\ config = DefaultConfig
  /\ traffic = ApprovalTraffic
  /\ applied \in {Given("evaluateCommandPolicy", [commands |-> c, cfg |-> cfg]) :
                    c \in PolicyCommands, cfg \in PolicyConfigs}

\* evaluateCommandPolicy(commands) returns
EvaluatePolicy ==
  /\ applied.fn = "evaluateCommandPolicy"
  /\ ~applied.returned
  /\ applied' = [applied EXCEPT
                   !.returned = TRUE,
                   !.result = evaluateCommandPolicy(applied.input.commands,
                                                    applied.input.cfg)]
  /\ UNCHANGED <<routerVars, queueVars>>

PolicyNext == EvaluatePolicy

SpecPolicy == InitPolicy /\ [][PolicyNext]_vars

PolicyEvaluated == applied.fn = "evaluateCommandPolicy" /\ applied.returned

\* the command, taken alone, matches a block pattern of the configuration
BlockedAlone(command, cfg) == matchesAny(command, compilePatterns(cfg.block))

\* the commands of the list that are blocked when taken alone, in order
BlockedAloneOf(commands, cfg) ==
  SelectSeq(commands, LAMBDA c : BlockedAlone(c, cfg))

NoKeptLastIndex(cfg) ==
  \A k \in 1..Len(compilePatterns(cfg.block)) : ~KeepsLastIndex(compilePatterns(cfg.block)[k])

\* without the flags g and y the statement holds
C31_BlockedIffMatchesAloneWithoutGY ==
  (PolicyEvaluated /\ NoKeptLastIndex(applied.input.cfg)) =>
    /\ applied.result.blockedCommands =
         BlockedAloneOf(applied.input.commands, applied.input.cfg)
    /\ applied.result.blocked = (applied.result.blockedCommands # <<>>)

\* with every flag: blockedCommands holds only commands that are blocked
\* when taken alone, and blocked is true iff some command of the list is
C31_BlockedFlagRight ==
  PolicyEvaluated =>
    /\ \A k \in 1..Len(applied.result.blockedCommands) :
         BlockedAlone(applied.result.blockedCommands[k], applied.input.cfg)
    /\ applied.result.blocked =
         (\E k \in 1..Len(applied.input.commands) :
            BlockedAlone(applied.input.commands[k], applied.input.cfg))
    /\ applied.result.blocked = (applied.result.blockedCommands # <<>>)

\* two commands that each match /rm/g alone, and only the first is listed
C31_SecondMissed ==
  /\ PolicyEvaluated
  /\ applied.input.cfg.block = <<"/rm/g">>
  /\ applied.input.commands = <<"rm -rf a", "rm b">>
  /\ applied.result.blockedCommands = <<"rm -rf a">>


\* ---------------------------------------------------------------------
\* The safe-directory runner: extractRmTargets on command lines made of
\* two commands and an operator
\* ---------------------------------------------------------------------

RmParts ==
  {"rm a", "/b/rm -r -- -x", "ls c", "sh -c \"rm /p\"", "sh -lc 'rm q;rm r'",
   "do rm -f s", "sh -c ls", "rm"}

RmJoiners == {"&&", " || ", ";", "|"}

RmLines == RmParts \cup {a \o j \o b : a \in RmParts, j \in RmJoiners, b \in RmParts}

InitRmTargets ==
  /\ Constructed
  /\ config = DefaultConfig
  /\ traffic = ApprovalTraffic
  /\ applied \in {Given("extractRmTargets", c) : c \in RmLines}

\* extractRmTargets(command) returns
ExtractTargets ==
  /\ applied.fn = "extractRmTargets"
  /\ ~applied.returned
  /\ applied' = [applied EXCEPT !.returned = TRUE,
                                !.result = extractRmTargets(applied.input)]
  /\ UNCHANGED <<routerVars, queueVars>>

RmTargetsNext == ExtractTargets

SpecRmTargets == InitRmTargets /\ [][RmTargetsNext]_vars

\* the token j is a non-flag argument of an rm invocation of the tokens: an
\* rm stands before it with no operator between them, and the token does not
\* begin with - or comes after a -- of that invocation
IsRmArgument(tokens, j) ==
  /\ tokens[j] # "--"
  /\ \E i \in 1..(j - 1) :
       /\ isRm(tokens[i])
       /\ \A k \in (i + 1)..j : ~isOperator(tokens[k])
       /\ \/ ~StartsWith(tokens[j], "-")
          \/ \E k \in (i + 1)..(j - 1) : tokens[k] = "--"

DirectRmArguments(tokens) == {tokens[j] : j \in {k \in 1..Len(tokens) : IsRmArgument(tokens, k)}}

\* the nested command strings of the tokens: the token after a -c or -lc
NestedStrings(tokens) ==
  {tokens[i + 1] : i \in {k \in 1..(Len(tokens) - 1) : tokens[k] \in {"-c", "-lc"}}}

\* the non-flag arguments of every rm invocation of the command, those of
\* its nested command strings included
RECURSIVE AllRmArguments(_)
AllRmArguments(command) ==
  LET tokens == shellSplit(command)
  IN DirectRmArguments(tokens)
       \cup UNION {AllRmArguments(n) : n \in NestedStrings(tokens)}

Range(seq) == {seq[k] : k \in 1..Len(seq)}

TargetsExtracted == applied.fn = "extractRmTargets" /\ applied.returned

C32_DirectOrFirstNested ==
  TargetsExtracted =>
    LET tokens == shellSplit(applied.input)
        k == MinOr0({i \in 1..(Len(tokens) - 1) : tokens[i] \in {"-c", "-lc"}})
    IN /\ Range(applied.result) \subseteq AllRmArguments(applied.input)
       /\ DirectRmArguments(tokens) # {} =>
            Range(applied.result) = DirectRmArguments(tokens)
       /\ (DirectRmArguments(tokens) = {} /\ k # 0) =>
            applied.result = extractRmTargets(tokens[k + 1])
       /\ (DirectRmArguments(tokens) = {} /\ k = 0) => applied.result = <<>>

\* a direct rm and an rm in a nested command string: only the target of the
\* direct rm is returned
C32_NestedMissed ==
  /\ TargetsExtracted
  /\ applied.input = "rm a&&sh -c \"rm /p\""
  /\ applied.result = <<"a">>


\* ---------------------------------------------------------------------
\* runner.ts: the session a CLI run resumes and the sessions it records
\* ---------------------------------------------------------------------

\* the step ran the agent
RanAgent == last'.chatId # "" /\ last'.invs # <<>>

\* the id found in the output of the i-th run of the step (memo.session is
\* extractCliSessionId on the outputs of the agent), or else the id the run
\* resumed
EffectiveSessionId(i) ==
  OrElse(memo.session[last'.invs[i].raw], last'.resumes[i])

\* the runs of the step whose process closed and that have a session id
BindingRuns ==
  {i \in 1..Len(last'.invs) : last'.invs[i].ok /\ EffectiveSessionId(i) # ""}

\* the first run of a handling resumes the session of the conversation if it
\* has one, or else the session of the workspace directory; a later run of the
\* handling resumes what the run before it recorded
ResumesKnownSession ==
  RanAgent =>
    LET c == getOrCreateConversation(last'.chatId)
    IN /\ Len(last'.resumes) = Len(last'.invs)
       /\ last'.resumes[1] =
            IF Lookup(sessions.conv, c) # "" THEN Lookup(sessions.conv, c)
            ELSE Lookup(sessions.ws, last'.invs[1].workspaceDir)
       /\ \A i \in 2..Len(last'.invs) :
            /\ last'.invs[i - 1].ok
            /\ last'.resumes[i] = EffectiveSessionId(i - 1)

\* after a run with a session id the conversation, the workspace directory
\* and the reverse mapping all hold it; the other entries stay as they were
RecordsSession ==
  (RanAgent /\ BindingRuns # {}) =>
    LET c == getOrCreateConversation(last'.chatId)
        n == CHOOSE i \in BindingRuns : \A j \in BindingRuns : j <= i
        sid == EffectiveSessionId(n)
        W == last'.invs[n].workspaceDir
    IN /\ Lookup(sessions'.conv, c) = sid
       /\ Lookup(sessions'.ws, W) = sid
       /\ Lookup(sessions'.wsOf, sid) = W
       /\ Lookup(sessions'.conv, c) = Lookup(sessions'.ws,
                                           WorkspaceDirOf([Store EXCEPT !.workspace = workspace'], c))
       /\ \A d \in Chats \ {c} : Lookup(sessions'.conv, d) = Lookup(sessions.conv, d)
       /\ \A V \in SessionDirs \ {W} : Lookup(sessions'.ws, V) = Lookup(sessions.ws, V)

\* a step whose runs found no id and knew none, or whose process did not
\* close, changes no session mapping
NothingToRecord ==
  (RanAgent /\ BindingRuns = {}) => sessions' = sessions

\* C33: a CLI run resumes the session id of the conversation if there is
\* one, or else that of the workspace directory.  After the run, with s the
\* id found in the output of the process or else the id resumed: if s exists,
\* conversation -> s, workspace -> s and s -> workspace are set, so that the
\* conversation and its workspace hold the same id; if no id was found and
\* none was known, no session mapping changes.
C33_ResumeAndRecord == [][ResumesKnownSession /\ RecordsSession /\ NothingToRecord]_vars

\* the session of the conversation and that of its workspace directory
\* differed (another conversation ran in the directory), and the run resumed
\* the session of the conversation, found no id in the output and left all
\* three mappings on the id it resumed
C33_Witness ==
  /\ last.chatId = "c1"
  /\ Len(last.invs) = 1
  /\ last.invs[1].ok
  /\ last.resumes = <<"s2-b">>
  /\ memo.session[last.invs[1].raw] = ""
  /\ Lookup(sessions.conv, "c1") = "s2-b"
  /\ Lookup(sessions.ws, last.invs[1].workspaceDir) = "s2-b"
  /\ Lookup(sessions.wsOf, "s2-b") = last.invs[1].workspaceDir
  /\ Lookup(sessions.conv, "g1") = "s1"

\* ---------------------------------------------------------------------
\* router.ts: the inline marker in the text of a message response
\* ---------------------------------------------------------------------

InlineTraffic ==
  [c \in Chats |->
     IF IsGroup(c) THEN {} ELSE {"/codex", "list the files", "/reset", "yes"}]

InitInline ==
  /\ Constructed
  /\ config \in {DefaultConfig, QuotingConfig}
  /\ traffic = InlineTraffic
  /\ applied = NotApplied

InlineNext == Inbound

SpecInline == InitInline /\ [][InlineNext]_vars

\* the outcome of a process, read from the record of its run
OutcomeOf(inv) ==
  [ok |-> inv.ok, out |-> inv.output, raw |-> inv.raw, error |-> inv.error,
   signal |-> inv.signal]

\* what runCodex returned to the router in the step
TurnResponse ==
  runCodex(last'.invs[1].request, last'.invs[1].workspaceDir, "proposal", TRUE,
           [i \in 1..Len(last'.invs) |-> OutcomeOf(last'.invs[i])], config)

\* the step is a turn in normal mode that ran the agent, and runCodex
\* returned a message response
NormalMessageStep ==
  /\ TurnStep
  /\ ~writeMode[getOrCreateConversation(last'.chatId)]
  /\ ~confirmNext[getOrCreateConversation(last'.chatId)]
  /\ last'.invs # <<>>
  /\ ~TurnResponse.threw
  /\ TurnResponse.resp.type = "message"

\* the text holds NEEDS_APPROVAL: yes somewhere
HoldsYesMarker(text) == \E i \in 1..Len(text) : NeedsAt(text, i) = "yes"

\* what the router does for an explicit needs_approval response: one pending
\* record of the conversation with the request and the workspace as payload,
\* the user message as the only message saved, the approval prompt as the
\* last message sent, and no execute run started by the router (an execute
\* run of the step is the one runCodex started before it returned)
HandledAsNeedsApproval ==
  LET c == getOrCreateConversation(last'.chatId)
  IN /\ Len(approvals') = Len(approvals) + 1
     /\ SubSeq(approvals', 1, Len(approvals)) = approvals
     /\ approvals'[Len(approvals')].status = "pending"
     /\ approvals'[Len(approvals')].conversationId = c
     /\ approvals'[Len(approvals')].payload
          = CodexPayload(last'.invs[1].request, last'.invs[1].workspaceDir)
     /\ \A i \in 1..Len(approvals) : approvals[i].id # approvals'[Len(approvals')].id
     /\ history'[c] = Append(history[c], [role |-> "user", content |-> last'.text])
     /\ last'.sent[Len(last'.sent)].kind = "approvalPrompt"
     /\ \A i \in 1..Len(last'.sent) : last'.sent[i].kind \notin {"relay", "failed"}
     /\ Len(last'.invs) = Len(TurnResponse.invs)

\* C34: in normal mode a message response whose text holds the marker
\* NEEDS_APPROVAL: yes is handled like an explicit needs_approval response:
\* one pending record with the request and the workspace is created, the
\* text of the assistant is not saved, the user is asked to confirm and the
\* router starts no execute run.
C34_MarkerAnywhereAsksApproval ==
  [][(NormalMessageStep /\ HoldsYesMarker(TurnResponse.resp.text))
       => HandledAsNeedsApproval]_vars

\* C34, amended: the same for a text whose first NEEDS_APPROVAL marker says
\* yes; a text whose first marker says no is relayed as it is.
C34_FirstMarkerAsksApproval ==
  [][NormalMessageStep =>
       /\ NeedsMatch(TurnResponse.resp.text) = "yes" => HandledAsNeedsApproval
       /\ (TurnResponse.resp.text # "" /\ NeedsMatch(TurnResponse.resp.text) # "yes") =>
            /\ approvals' = approvals
            /\ last'.sent[Len(last'.sent)]
                 = Send(last'.chatId, "relay", TurnResponse.resp.text)]_vars

\* C34: an explicit needs_approval response is handled in the same way
C34_ExplicitAsksApproval ==
  [][(/\ TurnStep
      /\ ~writeMode[getOrCreateConversation(last'.chatId)]
      /\ ~confirmNext[getOrCreateConversation(last'.chatId)]
      /\ last'.invs # <<>>
      /\ ~TurnResponse.threw
      /\ TurnResponse.resp.type = "needs_approval") => HandledAsNeedsApproval]_vars

\* the text of an allowed proposal's execute run quoted the marker and the
\* user was asked to approve
C34_Witness ==
  /\ last.chatId = "c1"
  /\ last.pendingId = 0
  /\ ~last.writeMode
  /\ Len(last.invs) = 2
  /\ last.invs[2].ok
  /\ last.invs[2].output = QuotingOutput
  /\ LastSent.kind = "approvalPrompt"
  /\ PendingExists("c1")
  /\ history["c1"] = <<[role |-> "user", content |-> "list the files"]>>

\* a text whose second marker says yes was relayed and nothing is pending
C34_SecondMarkerRelayed ==
  /\ last.chatId = "c1"
  /\ Len(last.invs) = 2
  /\ last.invs[2].output = TwoMarkerOutput
  /\ LastSent = Send("c1", "relay", TwoMarkerOutput)
  /\ approvals = <<>>

\* ---------------------------------------------------------------------
\* index.ts: PerChatQueue, every enqueued message reaches the handler
\* ---------------------------------------------------------------------

InitQueueFair ==
  /\ Constructed
  /\ config = DefaultConfig
  /\ traffic = ApprovalTraffic
  /\ applied = NotApplied

\* every handler invocation settles (it resolves, or it rejects and the
\* catch block logs the error), and the event loop runs the callbacks given
\* to setImmediate
SpecQueueFair ==
  /\ InitQueueFair
  /\ [][QueueNext]_vars
  /\ \A chatId \in Chats :
       WF_vars(HandlerSettles(chatId)) /\ WF_vars(RunImmediate(chatId))

\* the n-th message of chat c was given to the handler
PassedToHandler(c, n) == \E k \in 1..Len(handled[c]) : handled[c][k] = n

\* C35: every message enqueued on the queue of a chat is eventually given
\* to the handler, whenever it is enqueued: with no handler running, while
\* a handler runs, or between the end of a handler and the setImmediate
\* callback.
C35_EnqueuedIsHandled ==
  \A c \in Chats : \A n \in 1..MaxEnqueued :
    (enqueued[c] >= n) ~> PassedToHandler(c, n)

\* C35: a message waits in the list only while the chat is marked as
\* processing, with a handler unsettled or a setImmediate callback due
C35_WaitingHasSuccessor ==
  \A c \in Chats :
    /\ queues[c] # <<>> => c \in processing
    /\ c \in processing => inFlight[c] + immediates[c] = 1
    /\ c \notin processing => inFlight[c] + immediates[c] = 0

\* three messages of a chat were handled and the chat was released
C35_Witness ==
  /\ enqueued["c1"] = MaxEnqueued
  /\ \A n \in 1..MaxEnqueued : PassedToHandler("c1", n)
  /\ queues["c1"] = <<>>
  /\ "c1" \notin processing
  /\ inFlight["c1"] = 0
  /\ immediates["c1"] = 0

\* a message was enqueued between the end of a handler and the callback of
\* setImmediate
C35_EnqueuedInTheGap ==
  /\ inFlight["c1"] = 0
  /\ immediates["c1"] = 1
  /\ queues["c1"] = <<2>>
  /\ handled["c1"] = <<1>>

\* ---------------------------------------------------------------------
\* Agent processes of different chats in one workspace directory
\* ---------------------------------------------------------------------

\* two chats; the group chat can bind the workspace directory of chat c1
SharedDirTraffic ==
  [c \in Chats |->
     IF IsGroup(c)
       THEN {"/codex", "list the files", "/dir set /app/data/workspaces/c1"}
     ELSE {"/codex", "list the files", "yes"}]

InitShared ==
  /\ Constructed
  /\ config = DefaultConfig
  /\ traffic = SharedDirTraffic
  /\ applied = NotApplied

\* the handler started by processNext runs handleInbound.  The store is
\* written as the handler writes it; the agent processes it starts are alive
\* one after the other (each is awaited), and the handler settles when the
\* last of them has closed, or at once when it starts none.
StartsHandler(chatId) ==
  /\ inFlight[chatId] > 0
  /\ agents[chatId] = <<>>
  /\ \E text \in TextsOf(chatId) :
       LET msg == [chatId |-> chatId, text |-> text, isGroup |-> IsGroup(chatId),
                   isMentioned |-> IsGroup(chatId)]
       IN \E done \in Handlings(msg, <<>>) :
            /\ Handled(msg, done)
            /\ agents' = [agents EXCEPT ![chatId] = done.invs]
            /\ IF done.invs = <<>> THEN Settles(chatId)
               ELSE UNCHANGED <<inFlight, immediates>>
  /\ UNCHANGED <<config, memo, traffic, queues, processing, handled, enqueued, ipc,
                  applied>>

\* child.on("close") or child.on("error") or the timer of runProcess: the
\* process of the chat that is alive ends, and runCodexCli goes on
ProcessEnds(chatId) ==
  /\ agents[chatId] # <<>>
  /\ agents' = [agents EXCEPT ![chatId] = Tail(@)]
  /\ IF Tail(agents[chatId]) = <<>> THEN Settles(chatId)
     ELSE UNCHANGED <<inFlight, immediates>>
  /\ UNCHANGED <<routerVars, queues, processing, handled, enqueued, ipc, applied>>

SharedNext ==
  \E chatId \in Chats :
    \/ Arrives(chatId)
    \/ StartsHandler(chatId)
    \/ ProcessEnds(chatId)
    \/ RunImmediate(chatId)

SpecShared == InitShared /\ [][SharedNext]_vars

\* the chat has an agent process alive
Alive(c) == agents[c] # <<>>

\* the directory in which the process of the chat runs; it holds the file
\* .codex_last_message.txt that the run unlinks, writes and reads
AliveDir(c) == Head(agents[c]).workspaceDir

\* C36: no two agent processes are alive at the same time in the same
\* workspace directory, also when two chats have bound the same directory.
C36_OneProcessPerWorkspace ==
  \A c, d \in Chats :
    (c # d /\ Alive(c) /\ Alive(d)) => AliveDir(c) # AliveDir(d)

\* C36, what the queue gives: a chat has one handler at most, its processes
\* run in the workspace directory of its conversation, and two processes
\* alive in one directory belong to two chats bound to that directory
C36_OneProcessPerChat ==
  \A c \in Chats :
    /\ inFlight[c] <= 1
    /\ Alive(c) =>
         /\ inFlight[c] = 1
         /\ \A i \in 1..Len(agents[c]) :
              agents[c][i].workspaceDir
                = WorkspaceDirOf(Store, getOrCreateConversation(c))

\* the processes of two chats are alive in the directory of chat c1
C36_TwoInOneWorkspace ==
  /\ Alive("c1")
  /\ Alive("g1")
  /\ AliveDir("c1") = DATA_DIR \o "/workspaces/c1"
  /\ AliveDir("g1") = DATA_DIR \o "/workspaces/c1"
  /\ workspace["g1"] = DATA_DIR \o "/workspaces/c1"

\* ---------------------------------------------------------------------
\* runner.ts: runProcess, the callbacks of one process
\* ---------------------------------------------------------------------

MaxChunks == 2

MaxErrorEvents == 2

\* the closure of runProcess after spawn: the variables stdout, stderr and
\* finished, the timer, and what was done to the promise and to the process
\* (calls are the callbacks that ran, in order)
Listening ==
  [stdout |-> "", stderr |-> "", finished |-> FALSE, timer |-> "pending",
   resolves |-> 0, rejects |-> 0, kills |-> 0, value |-> "", error |-> "",
   closed |-> FALSE, code |-> 0, chunks |-> 0, errors |-> 0, calls |-> <<>>]

\* a close callback without the test of finished
CloseUnguarded(p, code) ==
  [p EXCEPT !.finished = TRUE,
            !.timer = IF @ = "pending" THEN "cleared" ELSE @,
            !.resolves = @ + 1,
            !.value = JoinOutputs(p.stdout, p.stderr)]

\* the callback of setTimeout
onTimeout(p) ==
  IF p.finished THEN p
  ELSE [p EXCEPT !.finished = TRUE, !.kills = @ + 1, !.rejects = @ + 1,
                 !.error = TimeoutError]

\* proc.on("error")
onError(p) ==
  IF p.finished THEN p
  ELSE [p EXCEPT !.finished = TRUE,
                 !.timer = IF @ = "pending" THEN "cleared" ELSE @,
                 !.rejects = @ + 1,
                 !.error = SpawnError]

\* proc.on("close"): the exit code is logged only
onClose(p, code) ==
  IF p.finished THEN p
  ELSE [p EXCEPT !.finished = TRUE,
                 !.timer = IF @ = "pending" THEN "cleared" ELSE @,
                 !.resolves = @ + 1,
                 !.value = JoinOutputs(p.stdout, p.stderr)]

InitProcess ==
  /\ Constructed
  /\ config = DefaultConfig
  /\ traffic = ApprovalTraffic
  /\ applied = [fn |-> "runProcess", input |-> <<>>, returned |-> FALSE,
                result |-> Listening]

\* the closure after the callback `call` left it as p
Called(p, call) ==
  /\ applied' = [applied EXCEPT !.result = [p EXCEPT !.calls = Append(@, call)],
                                !.returned = p.resolves + p.rejects > 0]
  /\ UNCHANGED <<routerVars, queueVars>>

\* proc.stdout.on("data") and proc.stderr.on("data"), before the streams close
Data ==
  /\ ~applied.result.closed
  /\ applied.result.chunks < MaxChunks
  /\ \E chunk \in {"ok ", "x\n"} :
       \/ applied' = [applied EXCEPT !.result.stdout = @ \o chunk,
                                     !.result.chunks = @ + 1]
       \/ applied' = [applied EXCEPT !.result.stderr = @ \o chunk,
                                     !.result.chunks = @ + 1]
  /\ UNCHANGED <<routerVars, queueVars>>

\* the timer expires unless clearTimeout was called
TimerFires ==
  /\ applied.result.timer = "pending"
  /\ Called([onTimeout(applied.result) EXCEPT !.timer = "fired"], "timeout")

\* the process emits error: it could not be spawned, or could not be killed
ErrorEmitted ==
  /\ applied.result.errors < MaxErrorEvents
  /\ Called([onError(applied.result) EXCEPT !.errors = @ + 1], "error")

\* the process has ended and its streams are closed
CloseEmitted ==
  /\ ~applied.result.closed
  /\ \E code \in {0, 1} :
       Called([onClose(applied.result, code) EXCEPT !.closed = TRUE, !.code = code],
              "close")

ProcessNext == Data \/ TimerFires \/ ErrorEmitted \/ CloseEmitted

SpecProcess == InitProcess /\ [][ProcessNext]_vars

\* C37: runProcess settles its promise exactly once under every ordering of
\* the timer, error and close callbacks.  The callback that runs first
\* decides: the timer kills the process and rejects, error rejects, close
\* resolves with the captured stdout and stderr whatever the exit code; the
\* callbacks that run later do not resolve, reject or kill.
C37_FirstCallbackSettles ==
  LET p == applied.result
  IN (applied.fn = "runProcess" /\ p.calls # <<>>) =>
       /\ p.resolves + p.rejects = 1
       /\ applied.returned
       /\ Head(p.calls) = "timeout" =>
            p.kills = 1 /\ p.rejects = 1 /\ p.error = TimeoutError
       /\ Head(p.calls) = "error" =>
            p.kills = 0 /\ p.rejects = 1 /\ p.error = SpawnError
       /\ Head(p.calls) = "close" =>
            /\ p.kills = 0
            /\ p.resolves = 1
            /\ p.value = JoinOutputs(p.stdout, p.stderr)

\* C37: before a callback has run the promise is unsettled and the process
\* has not been killed
C37_UnsettledBefore ==
  LET p == applied.result
  IN (applied.fn = "runProcess" /\ p.calls = <<>>) =>
       p.resolves + p.rejects = 0 /\ p.kills = 0 /\ ~applied.returned

\* the timer killed the process and rejected, error and close came later,
\* close with exit code 1
C37_Witness ==
  /\ applied.fn = "runProcess"
  /\ applied.result.calls = <<"timeout", "error", "close">>
  /\ applied.result.code = 1
  /\ applied.result.kills = 1
  /\ applied.result.rejects = 1
  /\ applied.result.resolves = 0

\* close came first with exit code 1 and the promise resolved with both
\* streams; the error that came later changed nothing
C37_ResolvedOnFailure ==
  /\ applied.fn = "runProcess"
  /\ applied.result.calls = <<"close", "error">>
  /\ applied.result.code = 1
  /\ applied.result.value = "ok \nx"
  /\ applied.result.stderr = "x\n"
  /\ applied.result.resolves = 1
  /\ applied.result.rejects = 0

\* ---------------------------------------------------------------------
\* How often a request is executed
\* ---------------------------------------------------------------------

\* the execute runs made while handling the message handled last
ExecuteRuns == {i \in 1..Len(last.invs) : last.invs[i].mode = "execute"}

\* C38: handling one message makes one execute-mode run of the agent at
\* most.
C38_OneExecutePerMessage == Cardinality(ExecuteRuns) <= 1

\* C38: a request that was executed while one message was handled is not
\* executed again while the next message is handled, by an approval or
\* otherwise.
C38_NotExecutedAgain ==
  [][\A i \in 1..Len(last'.invs) : \A j \in 1..Len(last.invs) :
       (/\ last'.invs[i].mode = "execute"
        /\ last.invs[j].mode = "execute"
        /\ last.invs[j].ok)
         => last'.invs[i].request # last.invs[j].request]_vars

\* C38, what does hold: a message makes two execute runs at most, and the
\* second run follows a run that runCodexCli executed at once for an allowed
\* proposal and whose text holds the marker NEEDS_APPROVAL: yes, in the
\* branch of /confirm or of /confirm --last
C38_SecondAfterMarkedExecution ==
  Cardinality(ExecuteRuns) > 1 =>
    /\ Len(last.invs) = 3
    /\ ExecuteRuns = {2, 3}
    /\ AutoExecutable(last.invs[1])
    /\ last.invs[2].ok
    /\ memo.inline[ExecuteText(last.invs[2])].found
    /\ last.invs[3].request = last.invs[2].request
    /\ last.pendingId = 0
    /\ last.command \in {"", "/confirm"}

\* /confirm --last executed the request twice
C38_TwiceInOneHandler ==
  /\ last.text = "/confirm --last"
  /\ Len(last.invs) = 3
  /\ last.invs[2].mode = "execute"
  /\ last.invs[2].ok
  /\ last.invs[3].mode = "execute"
  /\ last.invs[3].ok
  /\ last.invs[3].request = last.invs[2].request

\* the confirmation of an approval executed a request; the approval had been
\* asked for the text of an execution of that request
C38_ApprovedAfterExecution ==
  /\ last.pendingId # 0
  /\ Len(last.invs) = 1
  /\ last.invs[1].mode = "execute"
  /\ last.invs[1].ok
  /\ Len(history[LastConversation]) = 2
  /\ history[LastConversation][1].content = last.invs[1].request.userText
  /\ config.allow # <<>>

\* ---------------------------------------------------------------------
\* A confirmed approval whose execution fails
\* ---------------------------------------------------------------------

\* the message handled last confirmed a pending approval, and the execute
\* run started for it failed
FailedConfirmation ==
  /\ last.chatId # ""
  /\ last.pendingId # 0
  /\ last.invs # <<>>
  /\ ~last.invs[Len(last.invs)].ok

C39_NextIsNormal ==
  /\ last.chatId = "c1"
  /\ last.pendingId = 0
  /\ last.text = "list the files"
  /\ last.invs # <<>>
  /\ last.invs[1].mode = "proposal"
  /\ Len(approvals) >= 1
  /\ approvals[1].status = "approved"
  /\ approvals[1].conversationId = "c1"
  /\ Len(history["c1"]) = 2
  /\ history["c1"][2].role = "user"

(***************************************************************************)
(* scripts/watchdog.mjs                                                    *)
(***************************************************************************)

WATCHDOG_BACKOFF_MS == 1000

WATCHDOG_MAX_BACKOFF_MS == 30000

MaxChildren == 3

\* Math.max(1, 2 ** Math.max(0, crashCount - 1))
RECURSIVE BackoffFactor(_)
BackoffFactor(crashCount) == IF crashCount <= 1 THEN 1 ELSE 2 * BackoffFactor(crashCount - 1)

Min(a, b) == IF a <= b THEN a ELSE b

\* the module after its declarations: child is the number of the child in
\* the variable child (0 for null), children what became of each child
\* that was spawned and the events it has emitted, timers the restart timers
\* that are pending, exited whether the watchdog process has ended
Watching ==
  [child |-> 0, stopping |-> FALSE, crashCount |-> 0, children |-> <<>>,
   timers |-> 0, delay |-> 0, exited |-> FALSE]

\* scheduleRestart(exitInfo, ranMs); stable is ranMs >= WATCHDOG_STABLE_MS
scheduleRestart(w, stable) ==
  LET crashCount == IF stable THEN 0 ELSE w.crashCount + 1
  IN [w EXCEPT !.crashCount = crashCount,
               !.delay = Min(WATCHDOG_BACKOFF_MS * BackoffFactor(crashCount),
                             WATCHDOG_MAX_BACKOFF_MS),
               !.timers = @ + 1]

\* startChild(); spawned is FALSE when the command could not be spawned
startChild(w, spawned) ==
  IF w.stopping THEN w
  ELSE [w EXCEPT !.children = Append(@, [process |-> IF spawned THEN "running" ELSE "failed",
                                         exit |-> FALSE, error |-> FALSE]),
                 !.child = Len(w.children) + 1]

\* the body shared by child.on("exit") and child.on("error")
onChildEvent(w, stable) ==
  IF w.stopping THEN [w EXCEPT !.child = 0, !.exited = TRUE]
  ELSE scheduleRestart([w EXCEPT !.child = 0], stable)

\* stopWatchdog(signal): child.kill asks the child to end; the timer of 2 s
\* is the action ExitTimer
stopWatchdog(w) ==
  IF w.stopping THEN w
  ELSE IF w.child = 0 THEN [w EXCEPT !.stopping = TRUE, !.exited = TRUE]
  ELSE [w EXCEPT !.stopping = TRUE]

Watchdog == applied.result

SetWatchdog(w) ==
  /\ applied' = [applied EXCEPT !.result = w, !.returned = w.exited]
  /\ UNCHANGED <<routerVars, queueVars>>

\* the last statement of the module: startChild()
InitWatchdog ==
  /\ Constructed
  /\ config = DefaultConfig
  /\ traffic = ApprovalTraffic
  /\ \E spawned \in BOOLEAN :
       applied = [fn |-> "watchdog", input |-> <<>>, returned |-> FALSE,
                  result |-> startChild(Watching, spawned)]

\* the child c emits exit: a process that ran has ended; after a failed
\* spawn the event may or may not be emitted
ChildExit(c) ==
  /\ ~Watchdog.exited
  /\ ~Watchdog.children[c].exit
  /\ \E stable \in BOOLEAN :
       SetWatchdog(onChildEvent(
         [Watchdog EXCEPT !.children[c].exit = TRUE,
                          !.children[c].process = IF @ = "running" THEN "dead" ELSE @],
         stable))

\* the child c emits error: it could not be spawned, or it could not be
\* killed or signalled
ChildError(c) ==
  /\ ~Watchdog.exited
  /\ ~Watchdog.children[c].error
  /\ \E stable \in BOOLEAN :
       SetWatchdog(onChildEvent([Watchdog EXCEPT !.children[c].error = TRUE], stable))

\* the callback of the timer of scheduleRestart
RestartTimer ==
  /\ ~Watchdog.exited
  /\ Watchdog.timers > 0
  /\ Len(Watchdog.children) < MaxChildren
  /\ \E spawned \in BOOLEAN :
       SetWatchdog(startChild([Watchdog EXCEPT !.timers = @ - 1], spawned))

\* process.on("SIGINT") and process.on("SIGTERM")
Signalled ==
  /\ ~Watchdog.exited
  /\ SetWatchdog(stopWatchdog(Watchdog))

\* setTimeout(() => process.exit(0), 2000)
ExitTimer ==
  /\ ~Watchdog.exited
  /\ Watchdog.stopping
  /\ SetWatchdog([Watchdog EXCEPT !.exited = TRUE])

WatchdogNext ==
  \/ \E c \in 1..MaxChildren : c <= Len(Watchdog.children) /\ (ChildExit(c) \/ ChildError(c))
  \/ RestartTimer
  \/ Signalled
  \/ ExitTimer

SpecWatchdog == InitWatchdog /\ [][WatchdogNext]_vars

\* the children whose process runs
AliveChildren ==
  {c \in 1..Len(Watchdog.children) : Watchdog.children[c].process = "running"}

\* C40: the watchdog has one child process alive at most and one restart
\* timer pending at most, whatever the order of the exit and error events
\* of a child, also when a child emits both.
C40_OneChildOneTimer ==
  applied.fn = "watchdog" =>
    /\ Cardinality(AliveChildren) <= 1
    /\ Watchdog.timers <= 1

\* C40: once SIGINT or SIGTERM has been received no child is started
C40_NoChildAfterSignal ==
  [][(applied.fn = "watchdog" /\ Watchdog.stopping) =>
       Len(Watchdog'.children) = Len(Watchdog.children)]_vars

\* every child has emitted exactly the event of its fate so far: error for
\* a command that could not be spawned, exit for a process that ran
OneEventPerChild ==
  \A c \in 1..Len(Watchdog.children) :
    /\ Watchdog.children[c].error => Watchdog.children[c].process = "failed"
    /\ Watchdog.children[c].exit => Watchdog.children[c].process = "dead"

\* C40, what does hold: while no child has emitted a second or an unfitting
\* event, a child alive and a pending timer exclude each other and there is
\* one of them at most
C40_OneWhileOneEventEach ==
  (applied.fn = "watchdog" /\ OneEventPerChild) =>
    Cardinality(AliveChildren) + Watchdog.timers <= 1

\* a command that could not be spawned emitted error and exit: two timers
\* were pending and two children run
C40_TwoChildren ==
  /\ applied.fn = "watchdog"
  /\ ~Watchdog.stopping
  /\ Watchdog.children[1] = [process |-> "failed", exit |-> TRUE, error |-> TRUE]
  /\ AliveChildren = {2, 3}

\* a signal arrived while a restart timer was pending, the timer ran and
\* started nothing
C40_Stopped ==
  /\ applied.fn = "watchdog"
  /\ Watchdog.stopping
  /\ Watchdog.timers = 0
  /\ Len(Watchdog.children) = 1
  /\ Watchdog.children[1].process = "dead"

====
